---- MODULE Spec2Model ----
(***************************************************************************)
(* Resilient persistence layer of student-scheduler-api.                   *)
(*                                                                         *)
(*   src/src/services/schedule-service.js   ScheduleService                *)
(*   src/src/services/database-service.js   DatabaseService                *)
(*   src/unnamed/part_003, part_004         module-level retry helpers     *)
(*   src/setup-database.js                  schema of user-db              *)
(*                                                                         *)
(* Three specifications:                                                   *)
(*   Spec       one client calling ScheduleService, one call after the     *)
(*              other, against the user-db store, which may pause.         *)
(*   SpecConc   two requests in flight at once on one ScheduleService,     *)
(*              against a store that stays reachable.                      *)
(*   SpecRetry  one call of executeWithRetry, in each of its four          *)
(*              implementations, around an arbitrary operation.            *)
(*                                                                         *)
(* Every await of the JavaScript code is a step boundary; code between two *)
(* awaits runs atomically (single-threaded event loop).                    *)
(***************************************************************************)
EXTENDS Integers, Sequences, FiniteSets, TLC

\* null and undefined: of a string, of a number (IDENTITY values start at 1),
\* of an object
NULL == "null"
NoId == 0
NoObject == <<>>
\* this.pool = null; a pool handle is [id |-> n] with n >= 1
NoPool == [id |-> 0]

(***************************************************************************)
(* Bounds of the model.                                                    *)
(***************************************************************************)
\* calls started in one behaviour of Spec
MaxCalls == 2
\* times the store goes away (auto-pause, dropped connection) in one behaviour
MaxPauses == 1

(***************************************************************************)
(* retryConfig                                                             *)
(***************************************************************************)
maxRetries == 5
initialDelay == 2000
maxDelay == 30000
multiplier == 2

Min(a, b) == IF a < b THEN a ELSE b

\* delay = Math.min(delay * multiplier, maxDelay)
NextDelay(delay) == Min(delay * multiplier, maxDelay)

(***************************************************************************)
(* Errors.  An error is a record [message, code, id]: message is the       *)
(* sequence of the text parts it was concatenated from, code the driver's  *)
(* error code ("" when absent), id the identity of the Error object (where *)
(* and when it was constructed).                                           *)
(***************************************************************************)
MsgConnLost == "Connection lost - read ECONNRESET"
MsgLoginFailed == "Login failed for user 'sqladmin'."
\* the store's answer while the database resumes from auto-pause
MsgNotAvailable ==
    "Database 'user-db' on server 'student-schedule.database.windows.net' is not currently available. Please retry the connection later."
\* requestTimeout: 60000 has passed without an answer
MsgRequestTimeout == "Timeout: Request failed to complete in 60000ms"
\* the server's name does not resolve
MsgHostNotFound ==
    "Failed to connect to student-schedule.database.windows.net:1433 - getaddrinfo ENOTFOUND student-schedule.database.windows.net"
MsgUnique == "Violation of UNIQUE KEY constraint. Cannot insert duplicate key"
MsgForeignKey == "The INSERT statement conflicted with the FOREIGN KEY constraint"
MsgEmailRequired == "Email is required"
MsgEmailRequiredUser == "Email is required to create/find user"
MsgAborted == "Transaction has been aborted"
MsgNotFound == "Schedule not found"
MsgBadConfig == "The \"config.server\" property is required and must be of type string."
MsgNullOn == "Cannot read properties of null (reading 'on')"
MsgFailedToConnect == "Failed to connect to database after 5 attempts. Last error: "
MsgDSFailedAfter == "Database operation failed after 5 attempts: "
MsgP3FailedAfter == "[Query] Failed after 5 attempts: "
MsgP4FailedAfter == "Operation failed after 5 attempts: "

\* the patterns of the classifiers that occur in a text part, as written
PartIncludes(part) ==
    CASE part = MsgConnLost -> {"ECONNRESET", "Connection lost"}
      [] part = MsgLoginFailed -> {"Login failed"}
      [] part = MsgHostNotFound -> {"ENOTFOUND"}
      [] OTHER -> {}

\* the lower-cased patterns that occur in the lower-cased text part; the
\* pattern 'database .* on server .* is not currently available' is compared
\* letter by letter and occurs in no message of the store
LowerPartIncludes(part) ==
    CASE part = MsgConnLost -> {"econnreset", "connection lost"}
      [] part = MsgLoginFailed -> {"login failed"}
      [] OTHER -> {}

\* errorMessage.includes(pattern)
MessageIncludes(message, pattern) ==
    \E i \in 1..Len(message) : pattern \in PartIncludes(message[i])

\* pattern.toLowerCase()
ToLowerCase(pattern) ==
    CASE pattern = "ECONNREFUSED" -> "econnrefused"
      [] pattern = "ETIMEDOUT" -> "etimedout"
      [] pattern = "ESOCKET" -> "esocket"
      [] pattern = "ENOTOPEN" -> "enotopen"
      [] pattern = "Connection lost" -> "connection lost"
      [] pattern = "Cannot open server" -> "cannot open server"
      [] pattern = "Login failed" -> "login failed"
      [] pattern = "TCP Provider" -> "tcp provider"
      [] pattern = "Server is not found or not accessible" ->
            "server is not found or not accessible"
      [] pattern = "Database .* on server .* is not currently available" ->
            "database .* on server .* is not currently available"
      [] OTHER -> pattern

\* errorMessage.toLowerCase().includes(pattern.toLowerCase())
LowerMessageIncludes(message, pattern) ==
    \E i \in 1..Len(message) : ToLowerCase(pattern) \in LowerPartIncludes(message[i])

Error(msg, code, id) == [message |-> <<msg>>, code |-> code, id |-> id]

\* ScheduleService: isAzurePausedError
SSMessagePatterns ==
    {"login failed", "ECONNRESET", "ETIMEDOUT", "ENOTFOUND", "Connection lost",
     "socket hang up", "Server is in paused", "Database is paused",
     "Database is resuming"}
SSCodes == {"ESOCKET", "ECONNREFUSED", "ENETUNREACH"}

isAzurePausedError_Always(error) == TRUE
isAzurePausedError(error) ==
    \/ \E pat \in SSMessagePatterns : MessageIncludes(error.message, pat)
    \/ error.code \in SSCodes

\* DatabaseService, part_003 (server.js), part_004 (database.js): the same
\* isAzurePausedError three times over.  errorCode.includes(pattern) is a
\* substring test; no code of the model has a pattern as a proper substring.
pausedErrorPatterns ==
    {"ECONNREFUSED", "ETIMEDOUT", "ESOCKET", "ENOTOPEN", "Connection lost",
     "connection is closed", "Database .* on server .* is not currently available",
     "Cannot open server", "Login failed", "Server is not found or not accessible",
     "TCP Provider", "network-related", "instance-specific error"}
isAzurePausedErrorDS(error) ==
    \E pat \in pausedErrorPatterns :
        \/ LowerMessageIncludes(error.message, pat)
        \/ error.code = pat

(***************************************************************************)
(* executeWithRetry, in its four implementations.                          *)
(***************************************************************************)
SS == "ScheduleService"
DS == "DatabaseService"
P3 == "server.js"
P4 == "database.js"
Impls == {SS, DS, P3, P4}

Classify(impl, error) ==
    IF impl = SS THEN isAzurePausedError(error) ELSE isAzurePausedErrorDS(error)

\* the text the implementation puts in front of lastError.message
FailedAfter(impl) ==
    CASE impl = DS -> MsgDSFailedAfter
      [] impl = P3 -> MsgP3FailedAfter
      [] OTHER -> MsgP4FailedAfter

\* what executeWithRetry throws once the loop has used every attempt:
\* ScheduleService `throw lastError`, the others `throw new Error(`...${lastError.message}`)`
ExhaustedError(impl, lastError) ==
    IF impl = SS THEN lastError
    ELSE [message |-> <<FailedAfter(impl)>> \o lastError.message, code |-> "",
          id |-> <<0, "failedAfter">>]

\* the catch block of the loop, entered with the locals r = [attempt, delay,
\* lastError] and the error the attempt threw: the locals it leaves, whether it
\* reset the pool, whether the loop goes on with another attempt, the delay it
\* slept before that (0: no sleep) and otherwise what it threw out of the call
CatchBlock_OneMore(impl, r, error) ==
    LET transient == Classify(impl, error)
        again == transient /\ r.attempt <= maxRetries
    IN  [again |-> again,
         locals |-> IF again
                      THEN [attempt |-> r.attempt + 1, delay |-> NextDelay(r.delay),
                            lastError |-> error]
                      ELSE [r EXCEPT !.lastError = error],
         reset |-> transient,
         slept |-> IF again THEN r.delay ELSE 0,
         thrown |-> IF transient THEN ExhaustedError(impl, error) ELSE error]
CatchBlock(impl, r, error) ==
    LET transient == Classify(impl, error)
        again == transient /\ r.attempt < maxRetries
    IN  [again |-> again,
         locals |-> IF again
                      THEN [attempt |-> r.attempt + 1, delay |-> NextDelay(r.delay),
                            lastError |-> error]
                      ELSE [r EXCEPT !.lastError = error],
         reset |-> transient,
         slept |-> IF again THEN r.delay ELSE 0,
         thrown |-> IF transient THEN ExhaustedError(impl, error) ELSE error]

(***************************************************************************)
(* State.                                                                  *)
(***************************************************************************)
VARIABLES
    Users,            \* committed rows of table Users: [UserId, Email]
    Courses,          \* committed rows of Courses: [CourseId, CourseCode, Credits]
    Schedules,        \* committed rows of Schedules: [ScheduleId, UserId, TotalCredits]
    ScheduleDetails,  \* committed rows of ScheduleDetails: [DetailId, ScheduleId, CourseId]
    nextId,           \* next IDENTITY value of each table
    txn,              \* per request: the open sql.Transaction and its uncommitted writes
    dbPaused,         \* the store is away (auto-paused, connection dropped)
    pausesLeft,       \* pauses the environment may still cause
    writesLeft,       \* runs of the scripts that write to user-db that may still start
    removeDemo,       \* remove-demo-user.js: the statement a run of it issues next
    pool,             \* ScheduleService.pool: NULL or a pool handle
    isConnecting,     \* ScheduleService.isConnecting
    connected,        \* the handles whose .connected is true
    nextHandle,       \* identity of the next handle sql.connect creates
    pc,               \* per request: position in the code
    call,             \* per request: the service method called and its arguments
    ewr,              \* per request: locals of executeWithRetry
    cwr,              \* per request: locals of connectWithRetry
    loc,              \* per request: locals of the operation callback
    outcome,          \* per request: what the call returned or threw
    callsLeft,        \* calls that may still start
    snap,             \* history, per request: Schedules/ScheduleDetails when the call
                      \* started, and how far its transactions got
    resolved,         \* history, per email: the user ids resolutions returned, and
                      \* whether that was once or more often
    rx,               \* SpecRetry: the state of the single executeWithRetry call
    acq               \* SpecAcquire: one connection supervisor and its callers

storeVars == <<Users, Courses, Schedules, ScheduleDetails, nextId>>
envVars == <<dbPaused, pausesLeft, writesLeft, removeDemo>>
poolVars == <<pool, isConnecting, connected, nextHandle>>
reqVars == <<pc, call, ewr, cwr, loc, outcome>>
histVars == <<snap, resolved>>
vars == <<storeVars, txn, envVars, poolVars, reqVars, callsLeft, histVars, rx, acq>>

Procs == {"r1", "r2"}

(***************************************************************************)
(* Inputs the requests draw their arguments from.                          *)
(***************************************************************************)
EmailA == "a@vku.udn.vn"
EmailB == "b@vku.udn.vn"
IdentNoEmail == "user-123"

\* the email of the user setup-database.js inserts
DemoEmail == "demo@example.com"

\* userIdentifier.includes('@')
IncludesAt(userIdentifier) == userIdentifier \in {EmailA, EmailB, DemoEmail}

\* (userIdentifier, userData.email) pairs; a request that carries a
\* userData.email of its own is one of SeqCalls
UserInputs ==
    { [userIdentifier |-> EmailA, email |-> NULL],
      [userIdentifier |-> IdentNoEmail, email |-> NULL] }

\* course objects of a request body: {courseCode, courseId, credits}
CourseIT101 == [courseCode |-> "IT101", courseId |-> 1, credits |-> 3]
CourseIT102 == [courseCode |-> "IT102", courseId |-> 2, credits |-> 4]
CourseIT101b == [courseCode |-> "IT101", courseId |-> 1, credits |-> 4]
CourseNoCode == [courseCode |-> NULL, courseId |-> 2, credits |-> 3]

CourseLists ==
    { <<CourseIT101, CourseIT102>>,
      <<CourseIT101b, CourseIT101>>,
      <<CourseNoCode>>,
      <<>> }

\* const email = userData.email || (userIdentifier.includes('@') ? userIdentifier : null)
DeriveEmail(userIdentifier, dataEmail) ==
    IF dataEmail # NULL THEN dataEmail
    ELSE IF IncludesAt(userIdentifier) THEN userIdentifier ELSE NULL

\* `COURSE-${course.courseId || course.id}`
CoursePrefixed(id) == "COURSE-" \o ToString(id)

\* course.courseCode || `COURSE-${course.courseId || course.id}`
CourseCodeOf(course) ==
    IF course.courseCode # NULL THEN course.courseCode
    ELSE CoursePrefixed(course.courseId)

SumCredits_Head(courses) == IF courses = <<>> THEN 0 ELSE Head(courses).credits

RECURSIVE SumCredits(_)
\* courses.reduce((sum, course) => sum + (course.credits || 0), 0)
SumCredits(courses) ==
    IF courses = <<>> THEN 0
    ELSE Head(courses).credits + SumCredits(Tail(courses))

(***************************************************************************)
(* The store: tables, IDENTITY columns, constraints, transactions.         *)
(* Reads see the committed rows plus the reading transaction's own writes  *)
(* (READ COMMITTED SNAPSHOT, the default of Azure SQL Database); a row     *)
(* written by an open transaction is locked against other writers and      *)
(* against foreign-key checks until that transaction ends.                 *)
(***************************************************************************)
NoTxn ==
    [active |-> FALSE, broken |-> FALSE, Schedules |-> {}, Courses |-> {},
     ScheduleDetails |-> {}, updated |-> {}, deleted |-> {}]

\* committed rows as one record, to pass around and to snapshot
Tables ==
    [Users |-> Users, Courses |-> Courses, Schedules |-> Schedules,
     ScheduleDetails |-> ScheduleDetails]

\* what transaction t makes of the committed tables T when it commits
ApplyTxn(T, t) ==
    [Users |-> T.Users,
     Courses |-> T.Courses \cup t.Courses,
     Schedules |->
        { IF \E u \in t.updated : u.ScheduleId = s.ScheduleId
            THEN [s EXCEPT !.TotalCredits =
                    (CHOOSE u \in t.updated : u.ScheduleId = s.ScheduleId).TotalCredits]
            ELSE s : s \in T.Schedules } \cup t.Schedules,
     ScheduleDetails |->
        {d \in T.ScheduleDetails : d.DetailId \notin t.deleted} \cup t.ScheduleDetails]

\* the rows a statement issued through `via` by request p reads
View(p, via) == IF via = "txn" THEN ApplyTxn(Tables, txn[p]) ELSE Tables

\* schedule ids write-locked by a transaction of another request
LockedSchedules(p) ==
    UNION { {s.ScheduleId : s \in txn[q].Schedules}
            \cup {u.ScheduleId : u \in txn[q].updated} : q \in Procs \ {p} }
\* course ids inserted and not yet committed by another request
LockedCourses(p) ==
    UNION { {c.CourseId : c \in txn[q].Courses} : q \in Procs \ {p} }

SetTables(T) ==
    /\ Users' = T.Users
    /\ Courses' = T.Courses
    /\ Schedules' = T.Schedules
    /\ ScheduleDetails' = T.ScheduleDetails

\* a statement issued through `via` cannot reach the store
Unreachable(p, via) == dbPaused \/ (via = "txn" /\ txn[p].broken)

\* the error a statement, a connect, a begin or a commit fails with when the
\* store is away
ConnLost(id) == Error(MsgConnLost, "ESOCKET", id)

(***************************************************************************)
(* Environment: the store goes away and comes back.  While it is away no   *)
(* statement, connect, begin, commit or rollback gets through.  The pause  *)
(* may drop the open connections: the server then rolls back the           *)
(* transactions that were open on them, and they stay unusable.            *)
(***************************************************************************)
Dropped(t, drop) == IF drop /\ t.active THEN [t EXCEPT !.broken = TRUE] ELSE t

\* some request is in flight (a pause or a resume between two calls is a pause
\* or a resume at the start of the next one)
InFlight == \E p \in Procs : pc[p] \notin {"idle", "done"}

Pause ==
    /\ InFlight
    /\ ~dbPaused
    /\ pausesLeft > 0
    /\ dbPaused' = TRUE
    /\ pausesLeft' = pausesLeft - 1
    /\ \E drop \in BOOLEAN : txn' = [q \in Procs |-> Dropped(txn[q], drop)]
    /\ UNCHANGED <<storeVars, writesLeft, removeDemo, poolVars, reqVars, callsLeft, histVars, rx, acq>>

Resume ==
    /\ InFlight
    /\ dbPaused
    /\ dbPaused' = FALSE
    /\ UNCHANGED <<storeVars, txn, pausesLeft, writesLeft, removeDemo, poolVars, reqVars, callsLeft,
                   histVars, rx, acq>>

(***************************************************************************)
(* ScheduleService.executeWithRetry: the catch block.                      *)
(* Catch(p, error, poolNow) is the rest of the step in which the attempt   *)
(* of request p threw `error`, this.pool being poolNow at that point: it   *)
(* records lastError, classifies, invalidates the pool, and either goes to *)
(* sleep before the next attempt or throws out of the call.                *)
(***************************************************************************)
NoOutcome == [kind |-> "none", value |-> NoObject, error |-> NoObject]
Returned(v) == [kind |-> "returned", value |-> v, error |-> NoObject]
Threw(e) == [kind |-> "threw", value |-> NoObject, error |-> e]

Catch(p, error, poolNow) ==
    LET c == CatchBlock(SS, ewr[p], error) IN
    /\ pool' = IF c.reset THEN NoPool ELSE poolNow
    /\ ewr' = [ewr EXCEPT ![p].lastError = error]
    /\ pc' = [pc EXCEPT ![p] = IF c.again THEN "ewr_sleep" ELSE "done"]
    /\ outcome' = [outcome EXCEPT ![p] = IF c.again THEN @ ELSE Threw(c.thrown)]

(***************************************************************************)
(* Entering the operation callback with the pool connectWithRetry returned:*)
(* the code up to the callback's first await.                              *)
(***************************************************************************)
NoLoc ==
    [pool |-> NoPool, email |-> NULL, numericUserId |-> NoId, scheduleId |-> NoId,
     totalCredits |-> 0, idx |-> 1, courseId |-> NoId, error |-> NoObject,
     schedule |-> NoObject]

FirstPc(op) ==
    CASE op = "createSchedule" -> "cs_findUser"
      [] op = "getOrCreateUserId" -> "gu_findUser"
      [] op = "updateSchedule" -> "us_begin"
      [] op = "deleteSchedule" -> "ds_delete"
      [] op = "getUserSchedules" -> "gus_findUser"
      [] op = "getScheduleDetails" -> "gsd_schedule"

\* { success: true, schedules: [] }
NoSchedules == [success |-> TRUE, schedules |-> {}]

NeedsEmail(op) == op \in {"createSchedule", "getOrCreateUserId"}

EmailRequired(p) ==
    Error(IF call[p].op = "createSchedule" THEN MsgEmailRequired ELSE MsgEmailRequiredUser,
          "", <<ewr[p].attempt, "email">>)

EnterOp(p, handle, poolNow) ==
    LET email == DeriveEmail(call[p].userIdentifier, call[p].email) IN
    IF NeedsEmail(call[p].op) /\ email = NULL
      THEN /\ Catch(p, EmailRequired(p), poolNow)
           /\ loc' = [loc EXCEPT ![p] = NoLoc]
    ELSE IF call[p].op = "getUserSchedules" /\ email = NULL
      THEN \* if (!numericUserId) return { success: true, schedules: [] }
           /\ pool' = poolNow
           /\ loc' = [loc EXCEPT ![p] = NoLoc]
           /\ pc' = [pc EXCEPT ![p] = "done"]
           /\ outcome' = [outcome EXCEPT ![p] = Returned(NoSchedules)]
           /\ ewr' = ewr
      ELSE /\ pool' = poolNow
           /\ loc' = [loc EXCEPT ![p] = [NoLoc EXCEPT !.pool = handle, !.email = email]]
           /\ pc' = [pc EXCEPT ![p] = FirstPc(call[p].op)]
           /\ UNCHANGED <<ewr, outcome>>

(***************************************************************************)
(* A request starts a call of a ScheduleService method.                    *)
(***************************************************************************)
ScheduleIds == {1}

Calls ==
    { c \in { [op |-> "createSchedule", userIdentifier |-> u.userIdentifier,
                email |-> u.email, courses |-> cs, scheduleId |-> NoId] :
               u \in UserInputs, cs \in CourseLists } :
      \/ c.userIdentifier = EmailA /\ c.courses # <<CourseNoCode>>
      \/ c.courses = <<CourseIT101, CourseIT102>> }
    \cup
    { [op |-> "getOrCreateUserId", userIdentifier |-> u.userIdentifier,
       email |-> u.email, courses |-> <<>>, scheduleId |-> NoId] :
      u \in UserInputs }
    \cup
    { [op |-> "updateSchedule", userIdentifier |-> NULL, email |-> NULL,
       courses |-> cs, scheduleId |-> id] :
      cs \in {<<CourseIT101, CourseIT102>>, <<CourseNoCode>>}, id \in ScheduleIds }
    \cup
    { [op |-> "deleteSchedule", userIdentifier |-> NULL, email |-> NULL,
       courses |-> <<>>, scheduleId |-> id] : id \in ScheduleIds }

ReadCalls ==
    { [op |-> "getUserSchedules", userIdentifier |-> u, email |-> NULL,
       courses |-> <<>>, scheduleId |-> NoId] : u \in {EmailA, EmailB, IdentNoEmail} }
    \cup
    { [op |-> "getScheduleDetails", userIdentifier |-> NULL, email |-> NULL,
       courses |-> <<>>, scheduleId |-> id] : id \in ScheduleIds }

NoCall ==
    [op |-> NULL, userIdentifier |-> NULL, email |-> NULL, courses |-> <<>>,
     scheduleId |-> NoId]
NoEwr == [attempt |-> 0, delay |-> 0, lastError |-> NoObject]
NoCwr == [attempt |-> 0, delay |-> 0, lastError |-> NoObject]
\* prev: the call that ended before this one and its outcome, where a
\* caller's sequence of calls is followed (SpecSeq); connects: the sql.connect
\* calls made for this call so far, where they are counted (SpecTerm)
NoPrev == [call |-> NoCall, outcome |-> NoOutcome]
NoSnap ==
    [state |-> "none", Users |-> {}, Courses |-> {}, Schedules |-> {},
     ScheduleDetails |-> {}, nextUser |-> 0, prev |-> NoPrev, connects |-> 0]

Begun(p, calls) ==
    /\ pc[p] = "idle"
    /\ callsLeft > 0
    /\ callsLeft' = callsLeft - 1
    /\ \E c \in calls : call' = [call EXCEPT ![p] = c]
    \* let lastError; let delay = retryConfig.initialDelay; attempt = 1
    /\ ewr' = [ewr EXCEPT ![p] =
                 [attempt |-> 1, delay |-> initialDelay, lastError |-> NoObject]]
    /\ pc' = [pc EXCEPT ![p] = "ewr_attempt"]
    /\ snap' = [snap EXCEPT ![p] =
                  [state |-> "none", Users |-> Users, Courses |-> Courses,
                   Schedules |-> Schedules, ScheduleDetails |-> ScheduleDetails,
                   nextUser |-> nextId.Users,
                   prev |-> snap[p].prev, connects |-> 0]]
    /\ UNCHANGED <<storeVars, txn, envVars, poolVars, cwr, loc, outcome, resolved, rx, acq>>

StartCall(p) == Begun(p, Calls)

\* the caller has its result: the request slot is free again
Returning(p, prev) ==
    /\ pc[p] = "done"
    /\ pc' = [pc EXCEPT ![p] = "idle"]
    /\ call' = [call EXCEPT ![p] = NoCall]
    /\ ewr' = [ewr EXCEPT ![p] = NoEwr]
    /\ cwr' = [cwr EXCEPT ![p] = NoCwr]
    /\ loc' = [loc EXCEPT ![p] = NoLoc]
    /\ outcome' = [outcome EXCEPT ![p] = NoOutcome]
    /\ snap' = [snap EXCEPT ![p] = [NoSnap EXCEPT !.prev = prev]]
    /\ UNCHANGED <<storeVars, txn, envVars, poolVars, callsLeft, resolved, rx, acq>>

Return(p) == Returning(p, NoPrev)

(***************************************************************************)
(* ScheduleService.connectWithRetry                                        *)
(***************************************************************************)
PoolUsable == pool # NoPool /\ pool \in connected

\* lines 82-89: return the connected pool, or take the connecting flag
ReuseOrBeginConnect(p) ==
    IF PoolUsable
      THEN /\ EnterOp(p, pool, pool)
           /\ UNCHANGED <<isConnecting, cwr>>
      ELSE /\ isConnecting' = TRUE
           /\ cwr' = [cwr EXCEPT ![p] =
                        [attempt |-> 1, delay |-> initialDelay, lastError |-> NoObject]]
           /\ pc' = [pc EXCEPT ![p] = "cwr_connect"]
           /\ UNCHANGED <<pool, ewr, loc, outcome>>

\* a loop iteration of executeWithRetry begins: connectWithRetry up to its
\* first await
AttemptStart(p) ==
    /\ pc[p] = "ewr_attempt"
    /\ IF isConnecting
         THEN /\ pc' = [pc EXCEPT ![p] = "cwr_wait"]
              /\ UNCHANGED <<pool, isConnecting, cwr, ewr, loc, outcome>>
         ELSE ReuseOrBeginConnect(p)
    /\ UNCHANGED <<storeVars, txn, envVars, connected, nextHandle, call, callsLeft,
                   histVars, rx, acq>>

\* while (this.isConnecting) await sleep(500): the poll that finds the flag down
WaitConnecting(p) ==
    /\ pc[p] = "cwr_wait"
    /\ ~isConnecting
    /\ ReuseOrBeginConnect(p)
    /\ UNCHANGED <<storeVars, txn, envVars, connected, nextHandle, call, callsLeft,
                   histVars, rx, acq>>

\* one iteration of the connect loop: (close the stale pool,) sql.connect, and on
\* failure the catch block up to its await sleep(delay), or to the throw
ConnectAttempt(p, counted) ==
    /\ pc[p] = "cwr_connect"
    /\ IF ~dbPaused
         THEN /\ connected' = (connected \ {pool}) \cup {[id |-> nextHandle]}
              /\ nextHandle' = nextHandle + 1
              /\ isConnecting' = FALSE
              /\ EnterOp(p, [id |-> nextHandle], [id |-> nextHandle])
              /\ cwr' = [cwr EXCEPT ![p] = NoCwr]
         ELSE LET error == ConnLost(<<ewr[p].attempt, "connect", cwr[p].attempt>>) IN
              /\ connected' = connected \ {pool}
              /\ nextHandle' = nextHandle
              /\ IF cwr[p].attempt >= maxRetries
                   THEN \* break; this.isConnecting = false; throw lastError
                        /\ isConnecting' = FALSE
                        /\ cwr' = [cwr EXCEPT ![p] = NoCwr]
                        /\ Catch(p, error, pool)
                        /\ loc' = loc
                   ELSE \* both remaining branches await sleep(delay)
                        /\ cwr' = [cwr EXCEPT ![p].lastError = error]
                        /\ pc' = [pc EXCEPT ![p] = "cwr_sleep"]
                        /\ UNCHANGED <<pool, isConnecting, ewr, loc, outcome>>
    /\ snap' = IF counted THEN [snap EXCEPT ![p].connects = @ + 1] ELSE snap
    /\ UNCHANGED <<storeVars, txn, envVars, call, callsLeft, resolved, rx, acq>>

Connect(p) == ConnectAttempt(p, FALSE)

\* the timer of the connect loop's sleep(delay) fires:
\* delay = Math.min(delay * multiplier, maxDelay); attempt++, and the next
\* iteration up to its sql.connect
ConnectSlept(p) ==
    /\ pc[p] = "cwr_sleep"
    /\ cwr' = [cwr EXCEPT ![p].attempt = @ + 1, ![p].delay = NextDelay(@)]
    /\ pc' = [pc EXCEPT ![p] = "cwr_connect"]
    /\ UNCHANGED <<storeVars, txn, envVars, poolVars, call, ewr, loc, outcome,
                   callsLeft, histVars, rx, acq>>

\* the timer of executeWithRetry's sleep(delay) fires:
\* delay = Math.min(delay * multiplier, maxDelay); attempt++
EwrSlept(p) ==
    /\ pc[p] = "ewr_sleep"
    /\ ewr' = [ewr EXCEPT ![p] = CatchBlock(SS, @, @.lastError).locals]
    /\ pc' = [pc EXCEPT ![p] = "ewr_attempt"]
    /\ UNCHANGED <<storeVars, txn, envVars, poolVars, call, cwr, loc, outcome,
                   callsLeft, histVars, rx, acq>>

(***************************************************************************)
(* Statements.                                                             *)
(***************************************************************************)
\* Users.Email is UNIQUE (setup-database.js: Email NVARCHAR(255) NOT NULL UNIQUE);
\* Courses.CourseCode carries no constraint (CourseCode NVARCHAR(50) NOT NULL)
UsersEmailUnique == TRUE
CoursesCourseCodeUnique == FALSE

\* SELECT UserId FROM Users WHERE Email = @email
FindUserByEmail_Miss(T, email) == {}
FindUserByEmail_Any(T, email) == T.Users
FindUserByEmail(T, email) == {u \in T.Users : u.Email = email}

\* SELECT CourseId FROM Courses WHERE CourseCode = @courseCode
FindCourseByCode_Miss(T, courseCode) == {}
FindCourseByCode(T, courseCode) == {c \in T.Courses : c.CourseCode = courseCode}

\* the request object each statement of the transaction block is issued on:
\* transaction.request() ("txn") or pool.request() ("pool", auto-commit)
InsertScheduleVia_Pool == "pool"
InsertScheduleVia == "txn"
CourseVia == "txn"
InsertDetailVia == "txn"
UpdateVia == "txn"

\* the tables and the transaction of p after a statement issued through `via`
\* inserted `row` into `table`
Inserted(p, via, table, row) ==
    [T |-> IF via = "pool" THEN [Tables EXCEPT ![table] = @ \cup {row}] ELSE Tables,
     t |-> IF via = "txn" THEN [txn[p] EXCEPT ![table] = @ \cup {row}] ELSE txn[p]]

\* the acknowledgement of a write that took effect reaches the client, or the
\* connection drops first (the store goes away with the write applied)
AckOutcomes == IF pausesLeft > 0 /\ ~dbPaused THEN {"ok", "lost"} ELSE {"ok"}

EnvAfter(ack) ==
    IF ack = "lost"
      THEN dbPaused' = TRUE /\ pausesLeft' = pausesLeft - 1 /\ UNCHANGED <<writesLeft, removeDemo>>
      ELSE UNCHANGED envVars

\* a statement outside any try block threw
Fail(p, error) ==
    /\ Catch(p, error, pool)
    /\ loc' = [loc EXCEPT ![p] = NoLoc]

\* a statement inside the try block threw: control goes to the catch block,
\* whose first await is transaction.rollback()
FailInTxn(p, error) ==
    /\ pc' = [pc EXCEPT ![p] = "rollback"]
    /\ loc' = [loc EXCEPT ![p].error = error]
    /\ UNCHANGED <<pool, ewr, outcome>>

Goto(p, next, newLoc) ==
    /\ pc' = [pc EXCEPT ![p] = next]
    /\ loc' = [loc EXCEPT ![p] = newLoc]
    /\ UNCHANGED <<pool, ewr, outcome>>

ErrId(p, place) == <<ewr[p].attempt, place>>

Resolve(email, userId) ==
    IF email \notin DOMAIN resolved THEN resolved
    ELSE [resolved EXCEPT ![email] =
            [ids |-> @.ids \cup {userId},
             times |-> IF @.times = "never" THEN "once" ELSE "twice"]]

\* frame of the steps of an operation callback
opFrame == <<isConnecting, connected, nextHandle, call, cwr, callsLeft, rx, acq>>

(***************************************************************************)
(* Resolving the user: getOrCreateUserId, and the same code inlined at the *)
(* head of createSchedule.  Both run on pool.request().                    *)
(***************************************************************************)
\* the SELECT has answered
FindUser(p, found(_), missed) ==
    IF Unreachable(p, "pool")
      THEN Fail(p, ConnLost(ErrId(p, "findUser"))) /\ resolved' = resolved
      ELSE LET rows == FindUserByEmail(Tables, loc[p].email) IN
           IF rows # {}
             THEN \E u \in rows :
                    /\ found(u.UserId)
                    /\ resolved' = Resolve(loc[p].email, u.UserId)
             ELSE missed /\ resolved' = resolved

\* the INSERT ... OUTPUT INSERTED.UserId has answered
InsertUser(p, done(_)) ==
    IF Unreachable(p, "pool")
      THEN /\ Fail(p, ConnLost(ErrId(p, "insertUser")))
           /\ UNCHANGED <<Users, nextId, envVars, resolved>>
    ELSE IF UsersEmailUnique /\ \E u \in Users : u.Email = loc[p].email
      THEN /\ Fail(p, Error(MsgUnique, "EREQUEST", ErrId(p, "insertUser")))
           /\ UNCHANGED <<Users, nextId, envVars, resolved>>
    ELSE \E ack \in AckOutcomes :
           /\ Users' = Users \cup {[UserId |-> nextId.Users, Email |-> loc[p].email]}
           /\ nextId' = [nextId EXCEPT !.Users = @ + 1]
           /\ EnvAfter(ack)
           /\ IF ack = "ok"
                THEN /\ done(nextId.Users)
                     /\ resolved' = Resolve(loc[p].email, nextId.Users)
                ELSE /\ Fail(p, ConnLost(ErrId(p, "insertUser")))
                     /\ resolved' = resolved

GuReturn(p, userId) ==
    /\ pc' = [pc EXCEPT ![p] = "done"]
    /\ outcome' = [outcome EXCEPT ![p] = Returned(userId)]
    /\ loc' = [loc EXCEPT ![p] = NoLoc]
    /\ UNCHANGED <<pool, ewr>>

GuFindUser(p) ==
    /\ pc[p] = "gu_findUser"
    /\ FindUser(p, LAMBDA id : GuReturn(p, id), Goto(p, "gu_insertUser", loc[p]))
    /\ UNCHANGED <<storeVars, txn, envVars, snap, opFrame>>

GuInsertUser(p) ==
    /\ pc[p] = "gu_insertUser"
    /\ InsertUser(p, LAMBDA id : GuReturn(p, id))
    /\ UNCHANGED <<Courses, Schedules, ScheduleDetails, txn, snap, opFrame>>

(***************************************************************************)
(* ScheduleService.createSchedule                                          *)
(***************************************************************************)
CsFindUser(p) ==
    /\ pc[p] = "cs_findUser"
    /\ FindUser(p, LAMBDA id : Goto(p, "cs_begin", [loc[p] EXCEPT !.numericUserId = id]),
                Goto(p, "cs_insertUser", loc[p]))
    /\ UNCHANGED <<storeVars, txn, envVars, snap, opFrame>>

CsInsertUser(p) ==
    /\ pc[p] = "cs_insertUser"
    /\ InsertUser(p, LAMBDA id : Goto(p, "cs_begin", [loc[p] EXCEPT !.numericUserId = id]))
    /\ UNCHANGED <<Courses, Schedules, ScheduleDetails, txn, snap, opFrame>>

\* await transaction.begin(), and on success the code up to the next await
Begin(p, next) ==
    IF Unreachable(p, "pool")
      THEN /\ Fail(p, ConnLost(ErrId(p, "begin")))
           /\ UNCHANGED <<txn, snap>>
      ELSE /\ txn' = [txn EXCEPT ![p] = [NoTxn EXCEPT !.active = TRUE]]
           /\ snap' = [snap EXCEPT ![p].state = IF @ = "committed" THEN @ ELSE "open"]
           \* const totalCredits = courses.reduce(...)
           /\ Goto(p, next, [loc[p] EXCEPT !.totalCredits = SumCredits(call[p].courses)])

CsBegin(p) ==
    /\ pc[p] = "cs_begin"
    /\ Begin(p, "cs_insertSchedule")
    /\ UNCHANGED <<storeVars, envVars, resolved, opFrame>>

CsInsertSchedule(p) ==
    /\ pc[p] = "cs_insertSchedule"
    /\ IF Unreachable(p, InsertScheduleVia)
         THEN /\ FailInTxn(p, ConnLost(ErrId(p, "insertSchedule")))
              /\ UNCHANGED <<storeVars, txn>>
         ELSE IF loc[p].numericUserId \notin {u.UserId : u \in Users}
           \* FOREIGN KEY (UserId) REFERENCES Users(UserId)
           THEN /\ FailInTxn(p, Error(MsgForeignKey, "EREQUEST", ErrId(p, "insertSchedule")))
                /\ UNCHANGED <<storeVars, txn>>
         ELSE LET row == [ScheduleId |-> nextId.Schedules,
                          UserId |-> loc[p].numericUserId,
                          TotalCredits |-> loc[p].totalCredits]
                  w == Inserted(p, InsertScheduleVia, "Schedules", row)
              IN  /\ SetTables(w.T)
                  /\ txn' = [txn EXCEPT ![p] = w.t]
                  /\ nextId' = [nextId EXCEPT !.Schedules = @ + 1]
                  /\ Goto(p, IF call[p].courses = <<>> THEN "commit" ELSE "cs_findCourse",
                          [loc[p] EXCEPT !.scheduleId = row.ScheduleId, !.idx = 1])
    /\ UNCHANGED <<envVars, histVars, opFrame>>

CsFindCourse(p) ==
    /\ pc[p] = "cs_findCourse"
    /\ IF Unreachable(p, CourseVia)
         THEN FailInTxn(p, ConnLost(ErrId(p, "findCourse")))
         ELSE LET rows == FindCourseByCode(View(p, CourseVia),
                                           CourseCodeOf(call[p].courses[loc[p].idx]))
              IN  IF rows # {}
                    THEN \* recordset[0]: the store returns the rows in no stated order
                         \E c \in rows :
                            Goto(p, "cs_insertDetail", [loc[p] EXCEPT !.courseId = c.CourseId])
                    ELSE Goto(p, "cs_insertCourse", loc[p])
    /\ UNCHANGED <<storeVars, txn, envVars, histVars, opFrame>>

CsInsertCourse(p) ==
    /\ pc[p] = "cs_insertCourse"
    /\ LET course == call[p].courses[loc[p].idx]
           row == [CourseId |-> nextId.Courses, CourseCode |-> CourseCodeOf(course),
                   Credits |-> course.credits]
           w == Inserted(p, CourseVia, "Courses", row)
       IN  IF Unreachable(p, CourseVia)
             THEN /\ FailInTxn(p, ConnLost(ErrId(p, "insertCourse")))
                  /\ UNCHANGED <<storeVars, txn>>
           ELSE IF /\ CoursesCourseCodeUnique
                   /\ \E c \in View(p, CourseVia).Courses : c.CourseCode = row.CourseCode
             THEN /\ FailInTxn(p, Error(MsgUnique, "EREQUEST", ErrId(p, "insertCourse")))
                  /\ UNCHANGED <<storeVars, txn>>
           ELSE /\ SetTables(w.T)
                /\ txn' = [txn EXCEPT ![p] = w.t]
                /\ nextId' = [nextId EXCEPT !.Courses = @ + 1]
                /\ Goto(p, "cs_insertDetail", [loc[p] EXCEPT !.courseId = row.CourseId])
    /\ UNCHANGED <<envVars, histVars, opFrame>>

\* INSERT INTO ScheduleDetails (ScheduleId, CourseId, CreatedAt): both columns
\* are foreign keys; the check waits for a referenced row another transaction
\* has written and not yet committed
InsertDetail(p, via, scheduleId, courseId, next) ==
    /\ scheduleId \notin LockedSchedules(p)
    /\ courseId \notin LockedCourses(p)
    /\ LET V == View(p, via)
           row == [DetailId |-> nextId.ScheduleDetails, ScheduleId |-> scheduleId,
                   CourseId |-> courseId]
           w == Inserted(p, via, "ScheduleDetails", row)
       IN  IF Unreachable(p, via)
             THEN /\ FailInTxn(p, ConnLost(ErrId(p, "insertDetail")))
                  /\ UNCHANGED <<storeVars, txn>>
           ELSE IF \/ scheduleId \notin {s.ScheduleId : s \in V.Schedules}
                   \/ courseId \notin {c.CourseId : c \in V.Courses}
             THEN /\ FailInTxn(p, Error(MsgForeignKey, "EREQUEST", ErrId(p, "insertDetail")))
                  /\ UNCHANGED <<storeVars, txn>>
           ELSE /\ SetTables(w.T)
                /\ txn' = [txn EXCEPT ![p] = w.t]
                /\ nextId' = [nextId EXCEPT !.ScheduleDetails = @ + 1]
                /\ Goto(p, IF loc[p].idx = Len(call[p].courses) THEN "commit" ELSE next,
                        [loc[p] EXCEPT !.idx = @ + 1])

CsInsertDetail(p) ==
    /\ pc[p] = "cs_insertDetail"
    /\ InsertDetail(p, InsertDetailVia, loc[p].scheduleId, loc[p].courseId, "cs_findCourse")
    /\ UNCHANGED <<envVars, histVars, opFrame>>

\* the object the operation callback returns after commit
Result(p) ==
    IF call[p].op = "createSchedule"
      THEN [success |-> TRUE, scheduleId |-> loc[p].scheduleId,
            data |-> [scheduleId |-> loc[p].scheduleId,
                      totalCredits |-> loc[p].totalCredits,
                      courseCount |-> Len(call[p].courses)]]
      ELSE [success |-> TRUE]

\* await transaction.commit(), of createSchedule and of updateSchedule
Commit(p) ==
    /\ pc[p] = "commit"
    /\ IF Unreachable(p, "txn")
         THEN /\ FailInTxn(p, ConnLost(ErrId(p, "commit")))
              /\ UNCHANGED <<storeVars, txn, envVars, snap>>
         ELSE \E ack \in AckOutcomes :
                /\ SetTables(ApplyTxn(Tables, txn[p]))
                /\ nextId' = nextId
                /\ snap' = [snap EXCEPT ![p].state = "committed"]
                /\ EnvAfter(ack)
                /\ IF ack = "ok"
                     THEN /\ txn' = [txn EXCEPT ![p] = NoTxn]
                          /\ pc' = [pc EXCEPT ![p] = "done"]
                          /\ outcome' = [outcome EXCEPT ![p] = Returned(Result(p))]
                          /\ loc' = [loc EXCEPT ![p] = NoLoc]
                          /\ UNCHANGED <<pool, ewr>>
                     ELSE /\ txn' = [txn EXCEPT ![p] =
                                       [NoTxn EXCEPT !.active = TRUE, !.broken = TRUE]]
                          /\ FailInTxn(p, ConnLost(ErrId(p, "commit")))
    /\ UNCHANGED <<resolved, opFrame>>

\* the errors transaction.rollback() may throw when it cannot get through
RollbackErrors(p) ==
    { ConnLost(ErrId(p, "rollback")),
      Error(MsgAborted, "EABORT", ErrId(p, "rollback")) }

\* what becomes of an open transaction when rollback() is awaited: it is
\* rolled back when the call gets through, and by the server when the
\* connection was dropped; with the store away and the connection still up
\* the call throws and the transaction stays open on a connection the
\* service no longer refers to
AfterRollback(p) ==
    IF dbPaused /\ ~txn[p].broken THEN "abandoned" ELSE "rolledBack"

\* catch (error) { await transaction.rollback(); throw error; }
\* (the transaction object is local to the attempt and goes with it)
Rollback(p) ==
    /\ pc[p] = "rollback"
    /\ txn' = [txn EXCEPT ![p] = NoTxn]
    /\ snap' = [snap EXCEPT ![p].state = IF @ = "open" THEN AfterRollback(p) ELSE @]
    /\ IF Unreachable(p, "txn")
         THEN \E e \in RollbackErrors(p) : Catch(p, e, pool)
         ELSE Catch(p, loc[p].error, pool)
    /\ loc' = [loc EXCEPT ![p] = NoLoc]
    /\ UNCHANGED <<storeVars, envVars, resolved, opFrame>>

(***************************************************************************)
(* ScheduleService.updateSchedule                                          *)
(***************************************************************************)
UsBegin(p) ==
    /\ pc[p] = "us_begin"
    /\ Begin(p, "us_update")
    /\ UNCHANGED <<storeVars, envVars, resolved, opFrame>>

\* UPDATE Schedules SET TotalCredits = @totalCredits WHERE ScheduleId = @scheduleId
UsUpdate(p) ==
    /\ pc[p] = "us_update"
    /\ call[p].scheduleId \notin LockedSchedules(p)
    /\ LET id == call[p].scheduleId
           new == [ScheduleId |-> id, TotalCredits |-> loc[p].totalCredits]
           exists == \E s \in View(p, UpdateVia).Schedules : s.ScheduleId = id
       IN  IF Unreachable(p, UpdateVia)
             THEN /\ FailInTxn(p, ConnLost(ErrId(p, "update")))
                  /\ UNCHANGED <<storeVars, txn>>
           ELSE /\ IF exists /\ UpdateVia = "txn"
                     THEN txn' = [txn EXCEPT ![p].updated =
                                    {u \in @ : u.ScheduleId # id} \cup {new}]
                     ELSE txn' = txn
                /\ IF exists /\ UpdateVia = "pool"
                     THEN SetTables(ApplyTxn(Tables, [NoTxn EXCEPT !.updated = {new}]))
                     ELSE SetTables(Tables)
                /\ nextId' = nextId
                /\ Goto(p, "us_deleteDetails", loc[p])
    /\ UNCHANGED <<envVars, histVars, opFrame>>

\* rows matched by WHERE ScheduleId = @scheduleId
DetailsOfSchedule_None(rows, scheduleId) == {}
DetailsOfSchedule(rows, scheduleId) == {d \in rows : d.ScheduleId = scheduleId}

\* DELETE FROM ScheduleDetails WHERE ScheduleId = @scheduleId
UsDeleteDetails(p) ==
    /\ pc[p] = "us_deleteDetails"
    /\ LET id == call[p].scheduleId IN
       IF Unreachable(p, "txn")
         THEN /\ FailInTxn(p, ConnLost(ErrId(p, "deleteDetails")))
              /\ txn' = txn
         ELSE /\ txn' = [txn EXCEPT
                           ![p].deleted =
                              @ \cup {d.DetailId :
                                         d \in DetailsOfSchedule(ScheduleDetails, id)},
                           ![p].ScheduleDetails = @ \ DetailsOfSchedule(@, id)]
              /\ Goto(p, IF call[p].courses = <<>> THEN "commit" ELSE "us_insertDetail",
                      [loc[p] EXCEPT !.idx = 1])
    /\ UNCHANGED <<storeVars, envVars, histVars, opFrame>>

\* .input('courseId', sql.Int, course.courseId || course.id)
UsInsertDetail(p) ==
    /\ pc[p] = "us_insertDetail"
    /\ InsertDetail(p, InsertDetailVia, call[p].scheduleId,
                    call[p].courses[loc[p].idx].courseId, "us_insertDetail")
    /\ UNCHANGED <<envVars, histVars, opFrame>>

(***************************************************************************)
(* ScheduleService.deleteSchedule                                          *)
(***************************************************************************)
\* FOREIGN KEY (ScheduleId) REFERENCES Schedules(ScheduleId) ON DELETE CASCADE:
\* the ScheduleDetails rows that go with a deleted Schedules row
CascadeDeleted_None(details, scheduleId) == {}
CascadeDeleted(details, scheduleId) == {d \in details : d.ScheduleId = scheduleId}

\* DELETE FROM Schedules WHERE ScheduleId = @scheduleId, on pool.request()
DsDelete(p) ==
    /\ pc[p] = "ds_delete"
    /\ call[p].scheduleId \notin LockedSchedules(p)
    /\ IF Unreachable(p, "pool")
         THEN /\ Fail(p, ConnLost(ErrId(p, "delete")))
              /\ UNCHANGED <<storeVars, envVars>>
         ELSE \E ack \in AckOutcomes :
                /\ Schedules' = {s \in Schedules : s.ScheduleId # call[p].scheduleId}
                /\ ScheduleDetails' =
                     ScheduleDetails \ CascadeDeleted(ScheduleDetails, call[p].scheduleId)
                /\ UNCHANGED <<Users, Courses, nextId>>
                /\ EnvAfter(ack)
                /\ IF ack = "ok"
                     THEN /\ pc' = [pc EXCEPT ![p] = "done"]
                          /\ outcome' = [outcome EXCEPT ![p] = Returned([success |-> TRUE])]
                          /\ loc' = [loc EXCEPT ![p] = NoLoc]
                          /\ UNCHANGED <<pool, ewr>>
                     ELSE Fail(p, ConnLost(ErrId(p, "delete")))
    /\ UNCHANGED <<txn, histVars, opFrame>>

(***************************************************************************)
(* ScheduleService.getUserSchedules, getScheduleDetails: reads on          *)
(* pool.request().                                                         *)
(***************************************************************************)
ReturnValue(p, v) ==
    /\ pc' = [pc EXCEPT ![p] = "done"]
    /\ outcome' = [outcome EXCEPT ![p] = Returned(v)]
    /\ loc' = [loc EXCEPT ![p] = NoLoc]
    /\ UNCHANGED <<pool, ewr>>

\* SELECT UserId FROM Users WHERE Email = @email; an unknown user has no schedules
GusFindUser(p) ==
    /\ pc[p] = "gus_findUser"
    /\ IF Unreachable(p, "pool")
         THEN Fail(p, ConnLost(ErrId(p, "findUser")))
         ELSE LET rows == FindUserByEmail(Tables, loc[p].email) IN
              IF rows = {}
                THEN ReturnValue(p, NoSchedules)
                ELSE \E u \in rows :
                        Goto(p, "gus_select", [loc[p] EXCEPT !.numericUserId = u.UserId])
    /\ UNCHANGED <<storeVars, txn, envVars, histVars, opFrame>>

\* SELECT s.ScheduleId, s.TotalCredits, COUNT(sd.DetailId) as CourseCount ...
\* WHERE s.UserId = @userId GROUP BY ...
SchedulesOfUser(T, userId) ==
    { [ScheduleId |-> s.ScheduleId, TotalCredits |-> s.TotalCredits,
       CourseCount |-> Cardinality({d \in T.ScheduleDetails :
                                       d.ScheduleId = s.ScheduleId})] :
      s \in {x \in T.Schedules : x.UserId = userId} }

GusSelect(p) ==
    /\ pc[p] = "gus_select"
    /\ IF Unreachable(p, "pool")
         THEN Fail(p, ConnLost(ErrId(p, "select")))
         ELSE ReturnValue(p, [success |-> TRUE,
                              schedules |-> SchedulesOfUser(Tables, loc[p].numericUserId)])
    /\ UNCHANGED <<storeVars, txn, envVars, histVars, opFrame>>

\* SELECT * FROM Schedules WHERE ScheduleId = @scheduleId
FindScheduleById(T, scheduleId) == {s \in T.Schedules : s.ScheduleId = scheduleId}

GsdSchedule(p) ==
    /\ pc[p] = "gsd_schedule"
    /\ IF Unreachable(p, "pool")
         THEN Fail(p, ConnLost(ErrId(p, "schedule")))
         ELSE LET rows == FindScheduleById(Tables, call[p].scheduleId) IN
              IF rows = {}
                THEN Fail(p, Error(MsgNotFound, "", ErrId(p, "schedule")))
                ELSE \E s \in rows : Goto(p, "gsd_courses", [loc[p] EXCEPT !.schedule = s])
    /\ UNCHANGED <<storeVars, txn, envVars, histVars, opFrame>>

\* SELECT c.* FROM ScheduleDetails sd INNER JOIN Courses c ON sd.CourseId =
\* c.CourseId WHERE sd.ScheduleId = @scheduleId: one row for each detail row
CoursesOfSchedule(T, scheduleId) ==
    { r \in { [detail |-> d.DetailId, course |-> c] :
                d \in {x \in T.ScheduleDetails : x.ScheduleId = scheduleId},
                c \in T.Courses } :
      \E d \in T.ScheduleDetails :
          d.DetailId = r.detail /\ d.CourseId = r.course.CourseId }

GsdCourses(p) ==
    /\ pc[p] = "gsd_courses"
    /\ IF Unreachable(p, "pool")
         THEN Fail(p, ConnLost(ErrId(p, "courses")))
         ELSE ReturnValue(p, [success |-> TRUE, schedule |-> loc[p].schedule,
                              courses |-> CoursesOfSchedule(Tables, call[p].scheduleId)])
    /\ UNCHANGED <<storeVars, txn, envVars, histVars, opFrame>>

(***************************************************************************)
(* Spec: the calls of one client, one after the other, against one         *)
(* ScheduleService instance and a store that may pause.                    *)
(***************************************************************************)
\* rx outside SpecRetry
RxIdle == [pc |-> "off"]
\* acq outside SpecAcquire
AcqIdle == [pc |-> "off"]

\* the row setupDatabase inserts after it has created the tables:
\* INSERT INTO Users (Email, ...) VALUES ('demo@example.com', ...)
DemoUser == [UserId |-> 1, Email |-> DemoEmail]

\* user-db after setupDatabase(): the four tables, and the demo user in Users
InitStore ==
    /\ Users = {DemoUser}
    /\ Courses = {}
    /\ Schedules = {}
    /\ ScheduleDetails = {}
    /\ nextId = [Users |-> 2, Courses |-> 1, Schedules |-> 1, ScheduleDetails |-> 1]
    /\ txn = [p \in Procs |-> NoTxn]

(***************************************************************************)
(* The other writers of user-db: the scripts remove-demo-user.js and       *)
(* import-real-courses (part_000), each a process of its own that issues   *)
(* its statements on pool.request(), one awaited after the other and each  *)
(* committed on its own.  The routes POST /api/auth/signup and POST        *)
(* /api/users of server.js leave user-db as it is: the first is served by   *)
(* the handler registered first, which works on student-scheduler-db, and   *)
(* the UPDATE of the second names the column LastLoginAt, which the Users   *)
(* table of setup-database.js does not have, while its INSERT names the     *)
(* IDENTITY column UserId.                                                  *)
(***************************************************************************)
MaxUserWrites == 1

userFrame == <<txn, dbPaused, pausesLeft, poolVars, reqVars, callsLeft, histVars, rx, acq>>

\* SELECT UserId FROM Users WHERE Email = 'demo@example.com'
DemoUserIds == {u.UserId : u \in {v \in Users : v.Email = DemoEmail}}

\* rows written by a transaction that is still open, which a DELETE that
\* scans their table waits for
UncommittedSchedules == \E q \in Procs : txn[q].Schedules # {} \/ txn[q].updated # {}
UncommittedDetails == \E q \in Procs : txn[q].ScheduleDetails # {} \/ txn[q].deleted # {}
UncommittedCourses == \E q \in Procs : txn[q].Courses # {}

\* removeDemoUser(), first statement: DELETE FROM ScheduleDetails WHERE
\* ScheduleId IN (SELECT ScheduleId FROM Schedules WHERE UserId IN (...))
RemoveDemoDetails ==
    /\ ~dbPaused
    /\ writesLeft > 0
    /\ removeDemo = "details"
    /\ ~UncommittedDetails
    /\ writesLeft' = writesLeft - 1
    /\ removeDemo' = "schedules"
    /\ LET gone == {s.ScheduleId : s \in {t \in Schedules : t.UserId \in DemoUserIds}}
       IN  ScheduleDetails' = {d \in ScheduleDetails : d.ScheduleId \notin gone}
    /\ UNCHANGED <<Users, Courses, Schedules, nextId, userFrame>>

\* second statement: DELETE FROM Schedules WHERE UserId IN (...); the
\* ScheduleDetails rows of a deleted schedule go with it (ON DELETE CASCADE)
RemoveDemoSchedules ==
    /\ ~dbPaused
    /\ removeDemo = "schedules"
    /\ ~UncommittedSchedules
    /\ ~UncommittedDetails
    /\ removeDemo' = "users"
    /\ LET gone == {s.ScheduleId : s \in {t \in Schedules : t.UserId \in DemoUserIds}}
       IN  /\ Schedules' = {s \in Schedules : s.ScheduleId \notin gone}
           /\ ScheduleDetails' = {d \in ScheduleDetails : d.ScheduleId \notin gone}
    /\ UNCHANGED <<Users, Courses, nextId, writesLeft, userFrame>>

\* third statement: DELETE FROM Users WHERE Email = 'demo@example.com'; the
\* Schedules rows of a deleted user, and their ScheduleDetails rows, go with
\* it (ON DELETE CASCADE)
RemoveDemoUser ==
    /\ ~dbPaused
    /\ removeDemo = "users"
    /\ ~UncommittedSchedules
    /\ ~UncommittedDetails
    /\ removeDemo' = "details"
    /\ LET gone == {s.ScheduleId : s \in {t \in Schedules : t.UserId \in DemoUserIds}}
       IN  /\ Users' = {u \in Users : u.Email # DemoEmail}
           /\ Schedules' = {s \in Schedules : s.ScheduleId \notin gone}
           /\ ScheduleDetails' = {d \in ScheduleDetails : d.ScheduleId \notin gone}
    /\ UNCHANGED <<Courses, nextId, writesLeft, userFrame>>

\* importRealCourses(): DELETE FROM Courses WHERE CourseId > 0, and with each
\* course its ScheduleDetails rows (ON DELETE CASCADE). Every INSERT INTO
\* Courses (CourseId, ...) that follows names the IDENTITY column and is
\* rejected by the store; its error is caught and counted.
ImportRealCourses ==
    /\ ~dbPaused
    /\ writesLeft > 0
    /\ Courses # {}
    /\ ~UncommittedCourses
    /\ ~UncommittedDetails
    /\ writesLeft' = writesLeft - 1
    /\ Courses' = {c \in Courses : ~(c.CourseId > 0)}
    /\ ScheduleDetails' =
         {d \in ScheduleDetails : d.CourseId \notin {c.CourseId : c \in Courses}}
    /\ UNCHANGED <<Users, Schedules, nextId, removeDemo, userFrame>>

\* the same statements between two calls of the client
SeqRemoveDemoDetails(p) == pc[p] = "idle" /\ RemoveDemoDetails
SeqRemoveDemoSchedules(p) == pc[p] = "idle" /\ RemoveDemoSchedules
SeqRemoveDemoUser(p) == pc[p] = "idle" /\ RemoveDemoUser
SeqImportRealCourses(p) == pc[p] = "idle" /\ ImportRealCourses

InitService ==
    \* constructor: this.pool = null; this.isConnecting = false
    /\ pool = NoPool
    /\ isConnecting = FALSE
    /\ connected = {}
    /\ nextHandle = 1
    /\ pc = [p \in Procs |-> "idle"]
    /\ call = [p \in Procs |-> NoCall]
    /\ ewr = [p \in Procs |-> NoEwr]
    /\ cwr = [p \in Procs |-> NoCwr]
    /\ loc = [p \in Procs |-> NoLoc]
    /\ outcome = [p \in Procs |-> NoOutcome]
    /\ snap = [p \in Procs |-> NoSnap]
    /\ resolved = [e \in {EmailA} |-> [ids |-> {}, times |-> "never"]]

Init ==
    /\ InitStore
    /\ InitService
    /\ dbPaused = FALSE
    /\ pausesLeft = MaxPauses
    /\ writesLeft = 0
    /\ removeDemo = "details"
    /\ callsLeft = MaxCalls
    /\ rx = RxIdle
    /\ acq = AcqIdle

Client == "r1"

Next ==
    \/ Pause
    \/ Resume
    \/ StartCall(Client)
    \/ AttemptStart(Client)
    \/ Connect(Client)
    \/ ConnectSlept(Client)
    \/ EwrSlept(Client)
    \/ GuFindUser(Client)
    \/ GuInsertUser(Client)
    \/ CsFindUser(Client)
    \/ CsInsertUser(Client)
    \/ CsBegin(Client)
    \/ CsInsertSchedule(Client)
    \/ CsFindCourse(Client)
    \/ CsInsertCourse(Client)
    \/ CsInsertDetail(Client)
    \/ UsBegin(Client)
    \/ UsUpdate(Client)
    \/ UsDeleteDetails(Client)
    \/ UsInsertDetail(Client)
    \/ Commit(Client)
    \/ Rollback(Client)
    \/ DsDelete(Client)
    \/ Return(Client)

Spec == Init /\ [][Next]_vars

(***************************************************************************)
(* SpecSeq: one client creating, deleting and reading schedules, one call  *)
(* after the other, against a store that stays reachable.                  *)
(***************************************************************************)
MaxSeqCalls == 3

\* a schedule for the user setup-database.js inserted
DemoCreate ==
    [op |-> "createSchedule", userIdentifier |-> DemoEmail, email |-> NULL,
     courses |-> <<CourseIT101, CourseIT102>>, scheduleId |-> NoId]

SeqCalls ==
    {c \in Calls : \/ c.op = "deleteSchedule"
                   \/ /\ c.op = "createSchedule"
                      /\ c.userIdentifier = EmailA
                      /\ c.courses = <<CourseIT101, CourseIT102>>}
    \cup { [op |-> "createSchedule", userIdentifier |-> EmailB, email |-> EmailA,
             courses |-> <<CourseIT101, CourseIT102>>, scheduleId |-> NoId],
           DemoCreate }
    \cup ReadCalls

StartSeqCall(p) == Begun(p, SeqCalls)

\* the caller has its result and goes on to its next call
SeqReturn(p) == Returning(p, [call |-> call[p], outcome |-> outcome[p]])

InitSeq ==
    /\ InitStore
    /\ InitService
    /\ dbPaused = FALSE
    /\ pausesLeft = 0
    /\ writesLeft = MaxUserWrites
    /\ removeDemo = "details"
    /\ callsLeft = MaxSeqCalls
    /\ rx = RxIdle
    /\ acq = AcqIdle

NextSeq ==
    \/ StartSeqCall(Client)
    \/ AttemptStart(Client)
    \/ Connect(Client)
    \/ CsFindUser(Client)
    \/ CsInsertUser(Client)
    \/ CsBegin(Client)
    \/ CsInsertSchedule(Client)
    \/ CsFindCourse(Client)
    \/ CsInsertCourse(Client)
    \/ CsInsertDetail(Client)
    \/ Commit(Client)
    \/ DsDelete(Client)
    \/ GusFindUser(Client)
    \/ GusSelect(Client)
    \/ GsdSchedule(Client)
    \/ GsdCourses(Client)
    \/ SeqReturn(Client)
    \/ SeqRemoveDemoDetails(Client)
    \/ SeqRemoveDemoSchedules(Client)
    \/ SeqRemoveDemoUser(Client)
    \/ SeqImportRealCourses(Client)

SpecSeq == InitSeq /\ [][NextSeq]_vars

(***************************************************************************)
(* SpecTerm: one call, of createSchedule or of deleteSchedule, while the    *)
(* store may go away and come back, every connection attempt counted.  The *)
(* event loop runs the continuation of every await once the await has      *)
(* settled, and every await of the call settles (the driver answers or     *)
(* rejects, a sleep timer fires): the client's steps are weakly fair.      *)
(* Nothing makes the store come back.                                      *)
(***************************************************************************)
TermCalls ==
    {c \in Calls : \/ c.op = "deleteSchedule"
                   \/ /\ c.op = "createSchedule"
                      /\ c.userIdentifier = EmailA
                      /\ c.courses = <<CourseIT101, CourseIT102>>}

StartTermCall(p) == Begun(p, TermCalls)

CountedConnect(p) == ConnectAttempt(p, TRUE)

InitTerm ==
    /\ InitStore
    /\ InitService
    /\ dbPaused = FALSE
    /\ pausesLeft = MaxPauses
    /\ writesLeft = 0
    /\ removeDemo = "details"
    /\ callsLeft = 1
    /\ rx = RxIdle
    /\ acq = AcqIdle

\* the steps of the client inside one call
TermStep(p) ==
    \/ AttemptStart(p)
    \/ CountedConnect(p)
    \/ ConnectSlept(p)
    \/ EwrSlept(p)
    \/ CsFindUser(p)
    \/ CsInsertUser(p)
    \/ CsBegin(p)
    \/ CsInsertSchedule(p)
    \/ CsFindCourse(p)
    \/ CsInsertCourse(p)
    \/ CsInsertDetail(p)
    \/ Commit(p)
    \/ Rollback(p)
    \/ DsDelete(p)

NextTerm ==
    \/ Pause
    \/ Resume
    \/ StartTermCall(Client)
    \/ TermStep(Client)

\* where each request stands: every step of a call changes it
position == <<pc, [p \in Procs |-> <<ewr[p].attempt, cwr[p].attempt, loc[p].idx>>]>>

SpecTerm == InitTerm /\ [][NextTerm]_vars /\ WF_position(TermStep(Client))

(***************************************************************************)
(* SpecConc: two requests in flight at once, each resolving a user or      *)
(* creating a schedule, against a store that stays reachable.              *)
(***************************************************************************)
ConcCalls == {c \in Calls : c.op \in {"createSchedule", "getOrCreateUserId"}} \cup {DemoCreate}

StartConcCall(p) == Begun(p, ConcCalls)

InitConc ==
    /\ InitStore
    /\ InitService
    /\ dbPaused = FALSE
    /\ pausesLeft = 0
    /\ writesLeft = MaxUserWrites
    /\ removeDemo = "details"
    /\ callsLeft = Cardinality(Procs)
    /\ rx = RxIdle
    /\ acq = AcqIdle

NextConc ==
    \/ \E p \in Procs :
          \/ StartConcCall(p)
          \/ AttemptStart(p)
          \/ WaitConnecting(p)
          \/ Connect(p)
          \/ GuFindUser(p)
          \/ GuInsertUser(p)
          \/ CsFindUser(p)
          \/ CsInsertUser(p)
          \/ CsBegin(p)
          \/ CsInsertSchedule(p)
          \/ CsFindCourse(p)
          \/ CsInsertCourse(p)
          \/ CsInsertDetail(p)
          \/ Commit(p)
          \/ Rollback(p)
          \/ Return(p)
    \/ RemoveDemoDetails
    \/ RemoveDemoSchedules
    \/ RemoveDemoUser
    \/ ImportRealCourses

SpecConc == InitConc /\ [][NextConc]_vars

(***************************************************************************)
(* SpecRetry: one call of executeWithRetry in one of its implementations.  *)
(* The wrapped operation (with its connect step) is any operation: what    *)
(* its successive invocations do is drawn beforehand, as a script.         *)
(***************************************************************************)
AttemptOutcomes ==
    {"returns", "connLost", "connectFailed", "connectUnreachable", "notAvailable",
     "timeout", "loginFailed", "unique"}

\* one outcome for each invocation the loop can make
Scripts == [1..maxRetries -> AttemptOutcomes]

\* the text connectWithRetry of the implementation puts in front of
\* lastError.message when it gives up
ConnectPrefix(impl) ==
    CASE impl = DS -> MsgFailedToConnect
      [] impl = P3 -> "[Courses DB] Failed to connect after 5 attempts: "
      [] OTHER -> "Failed to connect after 5 attempts: "

\* what the connect step throws when its last attempt failed with lastError:
\* ScheduleService `throw lastError`, the others
\* `throw new Error(`...${lastError.message}`)`, an error without code
ConnectFailed(impl, lastError) ==
    IF impl = SS THEN lastError
    ELSE [message |-> <<ConnectPrefix(impl)>> \o lastError.message, code |-> "",
          id |-> lastError.id]

\* the error invocation i throws under the outcome `kind`
Thrown(impl, kind, i) ==
    CASE kind = "connLost" -> ConnLost(<<i, "operation">>)
      [] kind = "connectFailed" -> ConnectFailed(impl, ConnLost(<<i, "connect">>))
      [] kind = "connectUnreachable" ->
            ConnectFailed(impl, Error(MsgHostNotFound, "ESOCKET", <<i, "connect">>))
      [] kind = "notAvailable" -> Error(MsgNotAvailable, "ELOGIN", <<i, "operation">>)
      [] kind = "timeout" -> Error(MsgRequestTimeout, "ETIMEOUT", <<i, "operation">>)
      [] kind = "loginFailed" -> Error(MsgLoginFailed, "ELOGIN", <<i, "operation">>)
      [] OTHER -> Error(MsgUnique, "EREQUEST", <<i, "operation">>)

OpResult == "result"

RxStart(impl, script) ==
    [pc |-> "attempt", impl |-> impl, script |-> script,
     locals |-> [attempt |-> 1, delay |-> initialDelay, lastError |-> NoObject],
     invoked |-> 0, sleeps |-> <<>>, resets |-> 0, outcome |-> NoOutcome]

InitRetry ==
    /\ InitStore
    /\ InitService
    /\ dbPaused = FALSE
    /\ pausesLeft = 0
    /\ writesLeft = 0
    /\ removeDemo = "details"
    /\ callsLeft = 0
    /\ rx \in {RxStart(impl, script) : impl \in Impls, script \in Scripts}
    /\ acq = AcqIdle

\* try { return await operation(pool) }: the invocation returns
RxReturns ==
    /\ rx.pc = "attempt"
    /\ rx.script[rx.invoked + 1] = "returns"
    /\ rx' = [rx EXCEPT !.pc = "done", !.invoked = @ + 1,
                        !.outcome = Returned(OpResult)]
    /\ UNCHANGED <<storeVars, txn, envVars, poolVars, reqVars, callsLeft, histVars, acq>>

\* the catch block of executeWithRetry past its pool reset, c being what
\* CatchBlock found: await sleep(delay) while attempts are left; after the
\* last attempt the loop ends, and DatabaseService awaits logger.logError
\* before it throws, while the others throw at once
RxPastReset(r, c) ==
    LET reset == [r EXCEPT !.resets = @ + 1] IN
    IF c.again
      THEN [reset EXCEPT !.sleeps = Append(@, c.slept), !.pc = "asleep"]
    ELSE IF r.impl = DS
      THEN [reset EXCEPT !.pc = "logging"]
    ELSE [reset EXCEPT !.pc = "done", !.outcome = Threw(c.thrown)]

\* the invocation throws: the catch block up to its first await or to its
\* throw. lastError = error; on a transient error DatabaseService awaits
\* closePool() and the others reset the pool and go on; on any other error
\* DatabaseService awaits logger.logError and the others throw error
RxThrows ==
    /\ rx.pc = "attempt"
    /\ rx.script[rx.invoked + 1] # "returns"
    /\ LET i == rx.invoked + 1
           error == Thrown(rx.impl, rx.script[i], i)
           c == CatchBlock(rx.impl, rx.locals, error)
           caught == [rx EXCEPT !.invoked = i, !.locals.lastError = error]
       IN  rx' = IF rx.impl = DS
                   THEN [caught EXCEPT !.pc = IF c.reset THEN "closing" ELSE "logging"]
                 ELSE IF c.reset
                   THEN RxPastReset(caught, c)
                 ELSE [caught EXCEPT !.pc = "done", !.outcome = Threw(c.thrown)]
    /\ UNCHANGED <<storeVars, txn, envVars, poolVars, reqVars, callsLeft, histVars, acq>>

\* DatabaseService.closePool: the awaited this.pool.close() has settled;
\* this.pool = null, and the catch block goes on
RxClosed ==
    /\ rx.pc = "closing"
    /\ rx' = RxPastReset(rx, CatchBlock(rx.impl, rx.locals, rx.locals.lastError))
    /\ UNCHANGED <<storeVars, txn, envVars, poolVars, reqVars, callsLeft, histVars, acq>>

\* the timer of sleep(delay) fires:
\* delay = Math.min(delay * backoffMultiplier, maxDelayMs); attempt++
RxSlept ==
    /\ rx.pc = "asleep"
    /\ rx' = [rx EXCEPT
                 !.locals = CatchBlock(rx.impl, @, @.lastError).locals,
                 !.pc = "attempt"]
    /\ UNCHANGED <<storeVars, txn, envVars, poolVars, reqVars, callsLeft, histVars, acq>>

\* DatabaseService: the awaited logger.logError has settled; throw error, or
\* after the loop throw new Error(`...${lastError.message}`)
RxLogged ==
    /\ rx.pc = "logging"
    /\ rx' = [rx EXCEPT
                 !.pc = "done",
                 !.outcome = Threw(CatchBlock(rx.impl, rx.locals,
                                              rx.locals.lastError).thrown)]
    /\ UNCHANGED <<storeVars, txn, envVars, poolVars, reqVars, callsLeft, histVars, acq>>

NextRetry ==
    \/ RxReturns
    \/ RxThrows
    \/ RxClosed
    \/ RxSlept
    \/ RxLogged

SpecRetry == InitRetry /\ [][NextRetry]_vars

(***************************************************************************)
(* SpecAcquire: the connection supervisor of one implementation            *)
(* (ScheduleService.connectWithRetry, DatabaseService.initialize,          *)
(* getCoursesPool of server.js, getPool of database.js) and the requests   *)
(* that call it while others are inside it.  Every connection attempt       *)
(* succeeds, fails with a transient error or fails with a permanent one.   *)
(***************************************************************************)
MaxAcquires == 2

AcqCallers == {"a1", "a2"}

ConnectOutcomes == {"ok", "connLost", "badConfig"}

\* the error a failed connection attempt rejects with
ConnectError(kind, i) ==
    IF kind = "connLost" THEN ConnLost(<<i, "connect">>)
    ELSE Error(MsgBadConfig, "", <<i, "connect">>)

\* the catch block of the connect loop, entered with the locals r = [attempt,
\* delay] and the error of the attempt: whether the loop makes another
\* attempt, the delay it slept before it, the delay it leaves, and otherwise
\* what the loop throws
ConnectCatch(impl, r, error) ==
    LET transient == Classify(impl, error)
        again == r.attempt < maxRetries
    IN  [again |-> again,
         slept |-> IF ~again THEN 0
                   ELSE IF transient \/ impl = SS THEN r.delay ELSE initialDelay,
         delay |-> IF again /\ (transient \/ impl = SS)
                     THEN NextDelay(r.delay) ELSE r.delay,
         thrown |-> IF impl = SS THEN error
                    ELSE [message |-> <<ConnectPrefix(impl)>> \o error.message,
                          code |-> "", id |-> <<0, "failedToConnect">>]]

\* failed: the handle the caller's previous attempt ran its operation on
\* when that operation failed (0: none); closing: the handle whose close() the
\* caller awaits inside closePool
NoCaller ==
    [pc |-> "idle", waited |-> FALSE, cycles |-> 0, attempt |-> 0, delay |-> 0,
     tries |-> <<>>, sleeps |-> <<>>, outcome |-> NoOutcome, failed |-> 0,
     closing |-> 0]

\* a pool handle as a caller holds it
Handle(h) == [id |-> h]

\* one supervisor: the shared handle (0: null), the connecting flag, the
\* handles whose .connected is true, the module-wide pool sql.connect keeps
\* (0: none), the handles an 'error' handler is registered on, the handles
\* whose handler awaits its log write (erring), the handles whose close() the
\* pending calls of DatabaseService.close await (shutdown, one entry per call),
\* the acquire calls, operation failures and pool events the
\* environment may still cause and the outcomes its connection attempts may
\* have; reported: the handles that have reported themselves disconnected;
\* lost: the handles taken out of the shared slot, or closed, on behalf of
\* the failure of another handle
AcqStartWith(impl, acquires, outcomes, faults, events) ==
    [pc |-> "on", impl |-> impl, pool |-> 0, isConnecting |-> FALSE,
     nextHandle |-> 1, left |-> acquires,
     callers |-> [c \in AcqCallers |-> NoCaller],
     connected |-> {}, global |-> 0, handled |-> {}, erring |-> {},
     shutdown |-> <<>>, outcomes |-> outcomes, faults |-> faults,
     events |-> events, reported |-> {}, lost |-> {}]

AcqStart(impl) == AcqStartWith(impl, MaxAcquires, ConnectOutcomes, 0, 0)

\* if (this.isConnecting) { while (this.isConnecting) await sleep(500); ... }
MustWait_Never(flag) == FALSE
MustWait(flag) == flag

\* DatabaseService.getConnection, ahead of initialize and of its flag test:
\* if (this.pool && this.pool.connected) return this.pool
EntryReturns(a) == a.impl = DS /\ a.pool # 0 /\ a.pool \in a.connected
\* if (this.pool && !this.pool.connected) this.pool = null
PoolAtEntry(a) == IF a.impl = DS /\ a.pool \notin a.connected THEN 0 ELSE a.pool

\* the test that returns the existing handle, after the wait and without it:
\* if (this.pool && this.pool.connected) in ScheduleService and server.js,
\* if (this.pool) in DatabaseService.initialize, if (poolPromise) in database.js
AcqPoolUsable(a) ==
    /\ a.pool # 0
    /\ a.impl \in {SS, P3} => a.pool \in a.connected

\* server.js before it sets the flag:
\* if (coursesPool && !coursesPool.connected) coursesPool = null
PoolAtCycleStart(a) == IF a.impl = P3 THEN 0 ELSE a.pool

\* pool.close(): from the call on the handle is no longer connected, and
\* sql.connect has forgotten it if it was its module-wide pool
Closed(a, h) ==
    [a EXCEPT !.connected = @ \ {h},
              !.reported = @ \cup {h},
              !.global = IF @ = h THEN 0 ELSE @]

\* the head of a connection attempt. ScheduleService:
\* if (this.pool) { try { await this.pool.close() } catch (e) {} }, and only
\* then sql.connect; the others call connect at once
AttemptHead(a, c) ==
    IF a.impl = SS /\ a.pool # 0
      THEN [Closed(a, a.pool) EXCEPT !.callers[c].pc = "closeOld"]
      ELSE [a EXCEPT !.callers[c].pc = "connect"]

\* past the wait: the existing handle, or the start of a connect cycle
AcqProceed(a, c) ==
    IF AcqPoolUsable(a)
      THEN [a EXCEPT !.callers[c].pc = "done",
                     !.callers[c].outcome = Returned(Handle(a.pool))]
      ELSE AttemptHead([a EXCEPT !.isConnecting = TRUE,
                                 !.pool = PoolAtCycleStart(a),
                                 !.callers[c].cycles = @ + 1,
                                 !.callers[c].attempt = 1,
                                 !.callers[c].delay = initialDelay], c)

acqFrame == <<storeVars, txn, envVars, poolVars, reqVars, callsLeft, histVars, rx>>

\* a request calls acquire: the code up to its first await
AcqCall(c) ==
    /\ acq.callers[c].pc = "idle"
    /\ acq.left > 0
    /\ LET a == [acq EXCEPT !.left = @ - 1, !.pool = PoolAtEntry(acq)] IN
       acq' = IF EntryReturns(acq)
                THEN [a EXCEPT !.callers[c].pc = "done",
                               !.callers[c].outcome = Returned(Handle(acq.pool))]
              ELSE IF MustWait(acq.isConnecting)
                THEN [a EXCEPT !.callers[c].pc = "waiting", !.callers[c].waited = TRUE]
                ELSE AcqProceed(a, c)
    /\ UNCHANGED acqFrame

\* a sleep(500) of the wait loop ends and the flag is clear
AcqWake(c) ==
    /\ acq.callers[c].pc = "waiting"
    /\ ~MustWait(acq.isConnecting)
    /\ acq' = AcqProceed(acq, c)
    /\ UNCHANGED acqFrame

\* the handle a successful attempt resolves: new sql.ConnectionPool(config)
\* .connect() in DatabaseService and server.js makes a new one; sql.connect(config)
\* in ScheduleService and database.js resolves the module-wide pool it made
\* before, as long as nobody closed it, and makes a new one otherwise
UsesGlobalPool(impl) == impl \in {SS, P4}
ConnectedHandle(a) ==
    IF UsesGlobalPool(a.impl) /\ a.global # 0 THEN a.global ELSE a.nextHandle

\* the connecting flag once a connect cycle has ended, with a handle or with
\* an error: this.isConnecting = false before return and before throw, or in
\* a finally block
FlagAfterCycle_Kept(flag) == flag
FlagAfterCycle(flag) == FALSE

\* a pool's 'error' handler exists in DatabaseService.initialize,
\* getCoursesPool and getPool; ScheduleService registers none
HasErrorHandler(impl) == impl \in {DS, P3, P4}

\* the shared handle once a connect cycle has thrown: database.js sets
\* poolPromise = null before it throws; connectWithRetry of ScheduleService
\* leaves this.pool, and the catch block of executeWithRetry, its only caller,
\* sets this.pool = null when the error is transient, before anything else runs
PoolAfterCycleThrew(impl, slot, error) ==
    IF impl = P4 \/ (impl = SS /\ Classify(SS, error)) THEN 0 ELSE slot

\* a connection attempt settles. A successful one stores the handle; server.js
\* and database.js register their 'error' handler and all but DatabaseService
\* clear the flag and return at once, while DatabaseService.initialize first
\* awaits logger.logSystemEvent. A failed one runs the catch block, up to
\* its await sleep(delay), or ends the cycle; there
\* DatabaseService.initialize sets this.pool = null and awaits logger.logError
\* before it throws.
AcqConnect(c) ==
    /\ acq.callers[c].pc = "connect"
    /\ \E o \in acq.outcomes :
         LET r == acq.callers[c]
             k == ConnectCatch(acq.impl, r, ConnectError(o, r.attempt))
             h == ConnectedHandle(acq)
             tried == [acq EXCEPT !.callers[c].tries = Append(@, o)]
             stored == [tried EXCEPT !.pool = h,
                                     !.nextHandle = IF h = @ THEN @ + 1 ELSE @,
                                     !.connected = @ \cup {h},
                                     !.global = IF UsesGlobalPool(acq.impl) THEN h ELSE @]
         IN  acq' =
               IF o = "ok" /\ acq.impl = DS
                 THEN [stored EXCEPT !.callers[c].pc = "logging"]
               ELSE IF o = "ok"
                 THEN [stored EXCEPT !.handled = IF HasErrorHandler(acq.impl)
                                                  THEN @ \cup {h} ELSE @,
                                     !.isConnecting = FlagAfterCycle(@),
                                     !.callers[c].pc = "done",
                                     !.callers[c].outcome = Returned(Handle(h))]
               ELSE IF k.again
                 THEN [tried EXCEPT !.callers[c].attempt = @ + 1,
                                    !.callers[c].delay = k.delay,
                                    !.callers[c].sleeps = Append(@, k.slept),
                                    !.callers[c].pc = "sleeping"]
               ELSE IF acq.impl = DS
                 THEN [tried EXCEPT !.pool = 0,
                                    !.callers[c].pc = "failing",
                                    !.callers[c].outcome = Threw(k.thrown)]
               ELSE [tried EXCEPT !.isConnecting = FlagAfterCycle(@),
                                  !.pool = PoolAfterCycleThrew(acq.impl, @,
                                               ConnectError(o, r.attempt)),
                                  !.callers[c].pc = "done",
                                  !.callers[c].outcome = Threw(k.thrown)]
    /\ UNCHANGED acqFrame

\* DatabaseService.initialize after await this.logger.logSystemEvent(...):
\* this.pool.on('error', ...) and return this.pool, or, when this.pool has
\* become null meanwhile, the TypeError of null.on, which the catch block
\* answers with this.pool = null and await this.logger.logError(...)
AcqLogged(c) ==
    /\ acq.callers[c].pc = "logging"
    /\ acq' = IF acq.pool = 0
                THEN [acq EXCEPT !.callers[c].pc = "failing",
                                 !.callers[c].outcome =
                                     Threw(Error(MsgNullOn, "", <<0, "typeError">>))]
                ELSE [acq EXCEPT !.handled = @ \cup {acq.pool},
                                 !.isConnecting = FlagAfterCycle(@),
                                 !.callers[c].pc = "done",
                                 !.callers[c].outcome = Returned(Handle(acq.pool))]
    /\ UNCHANGED acqFrame

\* DatabaseService.initialize after the logger.logError of its catch block:
\* throw error, through finally { this.isConnecting = false }
AcqFailed(c) ==
    /\ acq.callers[c].pc = "failing"
    /\ acq' = [acq EXCEPT !.isConnecting = FlagAfterCycle(@),
                          !.callers[c].pc = "done"]
    /\ UNCHANGED acqFrame

\* ScheduleService: the close() of the old pool has settled; sql.connect
AcqCloseOld(c) ==
    /\ acq.callers[c].pc = "closeOld"
    /\ acq' = [acq EXCEPT !.callers[c].pc = "connect"]
    /\ UNCHANGED acqFrame

\* the timer of the sleep after a failed attempt fires: the head of the
\* next attempt
AcqSlept(c) ==
    /\ acq.callers[c].pc = "sleeping"
    /\ acq' = AttemptHead(acq, c)
    /\ UNCHANGED acqFrame

\* the caller has its handle or its error, and its operation has succeeded
AcqReturn(c) ==
    /\ acq.callers[c].pc = "done"
    /\ acq' = [acq EXCEPT !.callers[c] = NoCaller]
    /\ UNCHANGED acqFrame

InitAcquire ==
    /\ InitStore
    /\ InitService
    /\ dbPaused = FALSE
    /\ pausesLeft = 0
    /\ writesLeft = 0
    /\ removeDemo = "details"
    /\ callsLeft = 0
    /\ rx = RxIdle
    /\ acq \in {AcqStart(impl) : impl \in Impls}

NextAcquire ==
    \E c \in AcqCallers :
        \/ AcqCall(c)
        \/ AcqWake(c)
        \/ AcqConnect(c)
        \/ AcqSlept(c)
        \/ AcqLogged(c)
        \/ AcqFailed(c)
        \/ AcqReturn(c)

SpecAcquire == InitAcquire /\ [][NextAcquire]_vars

\* SpecWait: SpecAcquire under the scheduling of the event loop: a pending
\* sleep(500) of the wait loop ends, and a pending connection attempt settles
acqPosition == [c \in AcqCallers |-> <<acq.callers[c].pc, acq.callers[c].attempt>>]

SpecWait ==
    /\ InitAcquire
    /\ [][NextAcquire]_vars
    /\ \A c \in AcqCallers :
         /\ WF_acqPosition(AcqWake(c))
         /\ WF_acqPosition(AcqConnect(c))
         /\ WF_acqPosition(AcqSlept(c))
         /\ WF_acqPosition(AcqLogged(c))
         /\ WF_acqPosition(AcqFailed(c))

----------------------------------------------------------------------------
\* SpecHandle: the supervisor with handles that fail. Operations fail
\* transiently on the handle their caller holds, pools emit 'error' events,
\* and connection attempts succeed or fail transiently.

MaxHandleAcquires == 3
MaxOpFaults == 2
MaxPoolEvents == 2
HandleOutcomes == {"ok", "connLost"}

\* the handles an invalidation discards from the shared slot, or closes,
\* although they are connected and are not the handle h that failed
Discarded(a, h) ==
    IF a.pool # 0 /\ a.pool # h /\ a.pool \in a.connected THEN {a.pool} ELSE {}

\* the catch block of executeWithRetry after a transient failure of the
\* operation on the handle the caller holds: this.pool = null in
\* ScheduleService, coursesPool = null in server.js, poolPromise = null in
\* database.js; await this.closePool() in DatabaseService, which closes
\* whatever this.pool is now and sets it to null after the await. The sleep
\* that follows ends before the caller's next AcqCall.
AcqOpFails(c) ==
    /\ acq.callers[c].pc = "done"
    /\ acq.callers[c].outcome.kind = "returned"
    /\ acq.faults > 0
    /\ LET h == acq.callers[c].outcome.value.id
           a == [acq EXCEPT !.faults = @ - 1, !.lost = @ \cup Discarded(acq, h)]
       IN  acq' =
             IF acq.impl # DS
               THEN [a EXCEPT !.pool = 0,
                              !.callers[c] = [NoCaller EXCEPT !.failed = h]]
             ELSE IF acq.pool # 0
               THEN [Closed(a, acq.pool) EXCEPT
                         !.callers[c] = [NoCaller EXCEPT !.pc = "closing",
                                                         !.failed = h,
                                                         !.closing = acq.pool]]
               ELSE [a EXCEPT !.callers[c] = [NoCaller EXCEPT !.failed = h]]
    /\ UNCHANGED acqFrame

\* DatabaseService.closePool after await this.pool.close(): this.pool = null
AcqClosed(c) ==
    /\ acq.callers[c].pc = "closing"
    /\ acq' = [acq EXCEPT !.pool = 0,
                          !.lost = @ \cup Discarded(acq, acq.callers[c].failed),
                          !.callers[c].pc = "idle",
                          !.callers[c].closing = 0]
    /\ UNCHANGED acqFrame

\* a pool emits 'error' and is no longer connected. The handlers of server.js
\* and database.js set the shared handle to null; the handler of
\* DatabaseService first awaits logger.logError. A pool without handler
\* (ScheduleService; DatabaseService before its handler is registered) only
\* turns disconnected.
AcqPoolError(h) ==
    /\ h \in acq.connected
    /\ acq.events > 0
    /\ LET a == [acq EXCEPT !.events = @ - 1,
                            !.connected = @ \ {h},
                            !.reported = @ \cup {h}]
       IN  acq' = IF h \notin acq.handled THEN a
                  ELSE IF acq.impl = DS THEN [a EXCEPT !.erring = @ \cup {h}]
                  ELSE [a EXCEPT !.pool = 0, !.lost = @ \cup Discarded(acq, h)]
    /\ UNCHANGED acqFrame

\* the handler of DatabaseService after await this.logger.logError(...):
\* this.pool = null
AcqHandlerDone(h) ==
    /\ h \in acq.erring
    /\ acq' = [acq EXCEPT !.erring = @ \ {h},
                          !.pool = 0,
                          !.lost = @ \cup Discarded(acq, h)]
    /\ UNCHANGED acqFrame

\* DatabaseService.close(): if (this.pool) { await this.pool.close(); ...
\* A call made while the close() of an earlier call is pending finds this.pool
\* still set and closes the same pool again.
AcqShutdown ==
    /\ acq.impl = DS
    /\ acq.pool # 0
    /\ acq.events > 0
    /\ acq' = [Closed(acq, acq.pool) EXCEPT !.events = @ - 1,
                                            !.shutdown = Append(@, acq.pool)]
    /\ UNCHANGED acqFrame

\* how an awaited pool.close() settles
CloseSettles == {"resolved", "rejected"}

\* ... this.pool = null; await this.logger.logSystemEvent(...) } once the
\* close() has resolved; when it rejects, the catch block only awaits
\* this.logger.logError(...) and this.pool stays as it is
AcqShutdownDone ==
    /\ acq.shutdown # <<>>
    /\ \E i \in 1..Len(acq.shutdown), settled \in CloseSettles :
         acq' = [acq EXCEPT !.shutdown = SubSeq(@, 1, i - 1) \o SubSeq(@, i + 1, Len(@)),
                            !.pool = IF settled = "resolved" THEN 0 ELSE @]
    /\ UNCHANGED acqFrame

AcqHandles == 1..(MaxHandleAcquires + 1)

InitHandle ==
    /\ InitStore
    /\ InitService
    /\ dbPaused = FALSE
    /\ pausesLeft = 0
    /\ writesLeft = 0
    /\ removeDemo = "details"
    /\ callsLeft = 0
    /\ rx = RxIdle
    /\ acq \in {AcqStartWith(impl, MaxHandleAcquires, HandleOutcomes,
                             MaxOpFaults, MaxPoolEvents) : impl \in Impls}

NextHandle ==
    \/ \E c \in AcqCallers :
          \/ AcqCall(c)
          \/ AcqWake(c)
          \/ AcqConnect(c)
          \/ AcqReturn(c)
          \/ AcqLogged(c)
          \/ AcqFailed(c)
          \/ AcqCloseOld(c)
          \/ AcqSlept(c)
          \/ AcqOpFails(c)
          \/ AcqClosed(c)
    \/ \E h \in AcqHandles : AcqPoolError(h)
    \/ \E h \in AcqHandles : AcqHandlerDone(h)
    \/ AcqShutdown
    \/ AcqShutdownDone

SpecHandle == InitHandle /\ [][NextHandle]_vars

(***************************************************************************)
(* Properties of the transactional writer (Spec, SpecConc).                *)
(***************************************************************************)
\* C1: while a transaction of createSchedule or updateSchedule is open, and
\* once it has been rolled back because a step inside it failed, up to the
\* end of the call, the committed Schedules and ScheduleDetails tables hold
\* exactly the rows they held when the call started.
C1_RollbackRestoresTables ==
    \A p \in Procs :
        snap[p].state \in {"open", "rolledBack"} =>
            /\ Schedules = snap[p].Schedules
            /\ ScheduleDetails = snap[p].ScheduleDetails

\* the first call, a createSchedule, has failed after its Schedules row was
\* inserted (the IDENTITY value is used up) and has been rolled back
C1_Witness ==
    /\ pc[Client] = "done"
    /\ call[Client].op = "createSchedule"
    /\ outcome[Client].kind = "threw"
    /\ snap[Client].state = "rolledBack"
    /\ callsLeft = MaxCalls - 1
    /\ nextId.Schedules > 1

CourseCredits(courseId) == (CHOOSE c \in Courses : c.CourseId = courseId).Credits

RECURSIVE CreditsOfDetails(_)
CreditsOfDetails(details) ==
    IF details = {} THEN 0
    ELSE LET d == CHOOSE x \in details : TRUE
         IN  CourseCredits(d.CourseId) + CreditsOfDetails(details \ {d})

\* C2: every committed schedule's TotalCredits equals the sum of the Credits of
\* the Courses rows its ScheduleDetails rows reference.
C2_TotalCreditsFromCourses ==
    \A s \in Schedules :
        s.TotalCredits =
            CreditsOfDetails({d \in ScheduleDetails : d.ScheduleId = s.ScheduleId})

\* C6: with calls one after the other, no courseCode has a second Courses row,
\* committed or written by the open transaction.
C6_CourseRowReused ==
    LET rows == View(Client, "txn").Courses IN
    \A code \in {c.CourseCode : c \in rows} :
        Cardinality({c \in rows : c.CourseCode = code}) = 1

\* two schedules have an entry for the same Courses row: the later
\* createSchedule found the row the earlier one inserted
C6_Witness ==
    \E d1, d2 \in ScheduleDetails :
        /\ d1.ScheduleId # d2.ScheduleId
        /\ d1.CourseId = d2.CourseId

\* C7: no two Courses rows have the same CourseCode, also when createSchedule
\* transactions run interleaved.
C7_CourseCodeUnique ==
    \A c1, c2 \in Courses : c1.CourseCode = c2.CourseCode => c1 = c2

\* C8: with calls one after the other, an email resolved more than once has got
\* the same userId each time and has exactly one Users row, and no resolution
\* reaches its INSERT when a Users row for the email exists.
C8_ResolveUserIdempotent ==
    /\ \A e \in DOMAIN resolved :
          resolved[e].times = "twice" =>
              /\ Cardinality(resolved[e].ids) = 1
              /\ Cardinality({u \in Users : u.Email = e}) = 1
    /\ pc[Client] \in {"gu_insertUser", "cs_insertUser"} =>
          ~ \E u \in Users : u.Email = loc[Client].email

\* the second call, a getOrCreateUserId on its first attempt, has returned the
\* id of an email that an earlier call had resolved
C8_Witness ==
    /\ pc[Client] = "done"
    /\ call[Client].op = "getOrCreateUserId"
    /\ outcome[Client].kind = "returned"
    /\ ewr[Client].attempt = 1
    /\ resolved[EmailA].times = "twice"

\* C9: no request ends with the unique-constraint error of the Users insert.
C9_UniqueViolationNotSurfaced ==
    \A p \in Procs :
        outcome[p].kind = "threw" => outcome[p].error.message # <<MsgUnique>>

RECURSIVE CreditsUpTo(_, _)
CreditsUpTo(courses, n) ==
    IF n = 0 THEN 0 ELSE courses[n].credits + CreditsUpTo(courses, n - 1)

\* C10: when createSchedule has returned, the new schedule has as many
\* ScheduleDetails rows as the call had courses, courseCount is that number
\* and totalCredits is the sum of the credits of the courses supplied; for
\* IT101 (3 credits) and IT102 (4 credits) that is 2 rows and 7 credits.
C10_CreateScheduleResult ==
    (/\ pc[Client] = "done"
     /\ call[Client].op = "createSchedule"
     /\ outcome[Client].kind = "returned")
    => LET r == outcome[Client].value
           courses == call[Client].courses
           rows == {d \in ScheduleDetails : d.ScheduleId = r.scheduleId}
       IN  /\ Cardinality(rows) = Len(courses)
           /\ r.data.courseCount = Len(courses)
           /\ r.data.totalCredits = CreditsUpTo(courses, Len(courses))
           /\ courses = <<CourseIT101, CourseIT102>> =>
                 r.data.totalCredits = 7 /\ Cardinality(rows) = 2

C10_Witness ==
    /\ pc[Client] = "done"
    /\ outcome[Client].kind = "returned"
    /\ call[Client].op = "createSchedule"
    /\ call[Client].courses = <<CourseIT101, CourseIT102>>
    /\ outcome[Client].value.data.totalCredits = 7
    /\ Cardinality({d \in ScheduleDetails :
                        d.ScheduleId = outcome[Client].value.scheduleId}) = 2

\* number of elements of the list that name course id c
RECURSIVE TimesListed(_, _, _)
TimesListed(courses, n, c) ==
    IF n = 0 THEN 0
    ELSE (IF courses[n].courseId = c THEN 1 ELSE 0) + TimesListed(courses, n - 1, c)

\* C11: when updateSchedule(scheduleId, courses) has returned, the
\* ScheduleDetails rows of the schedule are one row for each element of the new
\* list (as many rows for a course as the list names it), none of them is a row
\* that was there when the call began, and the TotalCredits of the schedule is
\* the sum of the credits of the new list; a schedule with two entries updated
\* with a list of one course has exactly one entry.
C11_UpdateReplacesEntries ==
    (/\ pc[Client] = "done"
     /\ call[Client].op = "updateSchedule"
     /\ outcome[Client].kind = "returned")
    => LET id == call[Client].scheduleId
           courses == call[Client].courses
           rows == {d \in ScheduleDetails : d.ScheduleId = id}
       IN  /\ Cardinality(rows) = Len(courses)
           /\ \A c \in {d.CourseId : d \in rows} \cup
                       {courses[i].courseId : i \in 1..Len(courses)} :
                  Cardinality({d \in rows : d.CourseId = c}) =
                      TimesListed(courses, Len(courses), c)
           /\ rows \cap snap[Client].ScheduleDetails = {}
           /\ \A s \in Schedules :
                  s.ScheduleId = id =>
                      s.TotalCredits = CreditsUpTo(courses, Len(courses))
           /\ Len(courses) = 1 => Cardinality(rows) = 1

C11_Witness ==
    /\ pc[Client] = "done"
    /\ call[Client].op = "updateSchedule"
    /\ outcome[Client].kind = "returned"
    /\ call[Client].courses = <<CourseNoCode>>
    /\ Cardinality({d \in snap[Client].ScheduleDetails :
                        d.ScheduleId = call[Client].scheduleId}) = 2
    /\ Cardinality({d \in ScheduleDetails :
                        d.ScheduleId = call[Client].scheduleId}) = 1
    /\ \E s \in Schedules :
          s.ScheduleId = call[Client].scheduleId /\ s.TotalCredits = 3

\* C12: when deleteSchedule(id) has returned, no Schedules row and no
\* ScheduleDetails row carries id; and getScheduleDetails(id) called while no
\* Schedules row carries id ends by throwing 'Schedule not found' out of its
\* first attempt, with no retry.
C12_DeletedScheduleNotFound ==
    /\ (/\ pc[Client] = "done"
        /\ call[Client].op = "deleteSchedule"
        /\ outcome[Client].kind = "returned")
       => /\ \A s \in Schedules : s.ScheduleId # call[Client].scheduleId
          /\ \A d \in ScheduleDetails : d.ScheduleId # call[Client].scheduleId
    /\ (/\ pc[Client] = "done"
        /\ call[Client].op = "getScheduleDetails"
        /\ \A s \in Schedules : s.ScheduleId # call[Client].scheduleId)
       => /\ outcome[Client].kind = "threw"
          /\ outcome[Client].error.message = <<MsgNotFound>>
          /\ ewr[Client].attempt = 1
          /\ \A d \in ScheduleDetails : d.ScheduleId # call[Client].scheduleId

\* a schedule with two entries was created and deleted, and the read of it
\* has thrown
C12_Witness ==
    /\ pc[Client] = "done"
    /\ call[Client].op = "getScheduleDetails"
    /\ outcome[Client].kind = "threw"
    /\ outcome[Client].error.message = <<MsgNotFound>>
    /\ nextId.Schedules = 2
    /\ nextId.ScheduleDetails = 3
    /\ Schedules = {}
    /\ ScheduleDetails = {}

\* C13: when getUserSchedules has ended for an identifier that is the Email of
\* no Users row, it has returned success with an empty list, and the four
\* tables and the IDENTITY counters are as they were when the call began: no
\* Users row for the identifier has been created.
C13_UnknownUserEmptyList ==
    (/\ pc[Client] = "done"
     /\ call[Client].op = "getUserSchedules"
     /\ \A u \in snap[Client].Users : u.Email # call[Client].userIdentifier)
    => /\ outcome[Client].kind = "returned"
       /\ outcome[Client].value.success
       /\ outcome[Client].value.schedules = {}
       /\ Users = snap[Client].Users
       /\ Courses = snap[Client].Courses
       /\ Schedules = snap[Client].Schedules
       /\ ScheduleDetails = snap[Client].ScheduleDetails
       /\ nextId.Users = snap[Client].nextUser

\* the schedules of an unknown user have been read while another user has one
C13_Witness ==
    /\ pc[Client] = "done"
    /\ call[Client].op = "getUserSchedules"
    /\ call[Client].userIdentifier = EmailB
    /\ outcome[Client].kind = "returned"
    /\ outcome[Client].value.schedules = {}
    /\ \E u \in Users : u.Email = EmailA
    /\ Schedules # {}

\* C14: when createSchedule has ended for an empty courses list, it has thrown
\* and Users, Courses, Schedules and ScheduleDetails are as they were when the
\* call began.
C14_EmptyCoursesRejected ==
    (/\ pc[Client] = "done"
     /\ call[Client].op = "createSchedule"
     /\ call[Client].courses = <<>>)
    => /\ outcome[Client].kind = "threw"
       /\ Users = snap[Client].Users
       /\ Courses = snap[Client].Courses
       /\ Schedules = snap[Client].Schedules
       /\ ScheduleDetails = snap[Client].ScheduleDetails

\* C15: a createSchedule or getOrCreateUserId call from whose arguments no
\* e-mail can be derived never goes past the first connection attempt and the
\* first attempt of the operation (no backoff sleep, no retry), ends by
\* throwing the e-mail validation error, and leaves the four tables as they
\* were when it began.
C15_NoEmailFailsImmediately ==
    (/\ call[Client].op \in {"createSchedule", "getOrCreateUserId"}
     /\ DeriveEmail(call[Client].userIdentifier, call[Client].email) = NULL)
    => /\ cwr[Client].attempt <= 1
       /\ ewr[Client].attempt <= 1
       /\ pc[Client] = "done" =>
             /\ outcome[Client].kind = "threw"
             /\ outcome[Client].error.message \in
                    {<<MsgEmailRequired>>, <<MsgEmailRequiredUser>>}
       /\ Users = snap[Client].Users
       /\ Courses = snap[Client].Courses
       /\ Schedules = snap[Client].Schedules
       /\ ScheduleDetails = snap[Client].ScheduleDetails

\* C16: when createSchedule has ended by throwing, Users, Courses, Schedules
\* and ScheduleDetails are as they were when the call began: nothing of the
\* failed call remains, the Users row it would have created included.
C16_CreateAllOrNothing ==
    (/\ pc[Client] = "done"
     /\ call[Client].op = "createSchedule"
     /\ outcome[Client].kind = "threw")
    => /\ Users = snap[Client].Users
       /\ Courses = snap[Client].Courses
       /\ Schedules = snap[Client].Schedules
       /\ ScheduleDetails = snap[Client].ScheduleDetails

TransientOutcomes ==
    {"connLost", "connectFailed", "connectUnreachable", "notAvailable", "timeout"}

\* the first k invocations fail with a transient error
TransientFailures(k) == \A i \in 1..k : rx.script[i] \in TransientOutcomes

\* C3: when k < maxRetries transient failures of the operation or of its
\* connect step (connection reset, refused or timed out, socket-level failure,
\* store not currently available) are followed by a success, the call ends
\* returning the operation's result, after k + 1 invocations.
\* Fails in all four implementations on "notAvailable" and "timeout", whose
\* message and code match no pattern, and in DatabaseService, server.js and
\* database.js on "connectUnreachable", where the connect step's new Error
\* has lost the code that made the failure transient.
C3_RetriesUntilSuccess ==
    \A k \in 0..(maxRetries - 1) :
        (/\ rx.pc = "done"
         /\ TransientFailures(k)
         /\ rx.script[k + 1] = "returns")
        => /\ rx.outcome.kind = "returned"
           /\ rx.outcome.value = OpResult
           /\ rx.invoked = k + 1

\* C4: when every invocation fails with a transient error, the call ends after
\* exactly maxRetries invocations, throwing the very error the last
\* invocation raised.
C4_FailsWithLastError ==
    (rx.pc = "done" /\ TransientFailures(maxRetries))
    => /\ rx.invoked = maxRetries
       /\ rx.outcome.kind = "threw"
       /\ rx.outcome.error = Thrown(rx.impl, rx.script[maxRetries], maxRetries)

\* C5: an invocation that fails with a constraint violation is the last one:
\* the call throws that very error without another invocation and without a
\* sleep (DatabaseService, once the log write it awaits first has settled),
\* and has slept only after the failures before it.
C5_PermanentPropagates ==
    rx.pc # "off" =>
        \A i \in 1..rx.invoked :
            rx.script[i] = "unique" =>
                /\ i = rx.invoked
                /\ rx.pc = "done" \/ (rx.impl = DS /\ rx.pc = "logging")
                /\ rx.pc = "done" =>
                       /\ rx.outcome.kind = "threw"
                       /\ rx.outcome.error = Thrown(rx.impl, "unique", i)
                /\ Len(rx.sleeps) = i - 1

\* the third invocation failed with a constraint violation after two
\* transient failures
C5_Witness ==
    /\ rx.pc = "done"
    /\ rx.invoked = 3
    /\ TransientFailures(2)
    /\ rx.script[3] = "unique"
    /\ rx.outcome.kind = "threw"
(***************************************************************************)
(* Properties of the connection supervisor (SpecAcquire).                  *)
(***************************************************************************)
CyclePcs == {"connect", "closeOld", "sleeping", "logging", "failing"}
Connecting(a) == {c \in AcqCallers : a.callers[c].pc \in CyclePcs}

\* C18: in every step, a caller enters a connect cycle only if the connecting
\* flag was clear before the step, and after the step at most one caller is
\* inside a connect cycle (has a connection attempt in flight or sleeps
\* between two attempts), with the flag set for as long as it is; so a caller
\* that found the flag set opens no connection while it is set.
C18_OneConnectCycle ==
    [][/\ \A c \in AcqCallers :
             (c \notin Connecting(acq) /\ c \in Connecting(acq')) => ~acq.isConnecting
       /\ Cardinality(Connecting(acq')) <= 1
       /\ Connecting(acq') # {} => acq'.isConnecting]_vars

\* one caller is at its second connection attempt or later while the other
\* waits on the flag
C18_Witness ==
    \E c \in AcqCallers, d \in AcqCallers :
        /\ acq.callers[c].pc = "connect"
        /\ acq.callers[c].attempt >= 2
        /\ acq.callers[d].pc = "waiting"

\* C19: a caller that found the connecting flag set when it called acquire
\* starts no connect cycle of its own: it ends with the result of the cycle
\* it waited for.
C19_WaiterStartsNoCycle ==
    \A c \in AcqCallers : acq.callers[c].waited => acq.callers[c].cycles = 0

\* C20: in a connect cycle a connection attempt that failed with a permanent
\* error is the last attempt of the cycle, no sleep follows it, and the cycle
\* has ended by throwing.
C20_PermanentEndsCycle ==
    \A c \in AcqCallers :
        LET r == acq.callers[c] IN
        \A i \in 1..Len(r.tries) :
            r.tries[i] = "badConfig" =>
                /\ i = Len(r.tries)
                /\ Len(r.sleeps) < i
                /\ r.pc = "done"
                /\ r.outcome.kind = "threw"

(***************************************************************************)
(* Further properties of the transactional writer (Spec, SpecSeq).         *)
(***************************************************************************)
\* C30: no two committed ScheduleDetails rows carry the same ScheduleId and
\* the same CourseId.
C30_EntryIsSchedulePlusCourse ==
    \A d \in ScheduleDetails, e \in ScheduleDetails :
        (d.ScheduleId = e.ScheduleId /\ d.CourseId = e.CourseId) => d = e

\* C27: when a statement inside the transaction of createSchedule or
\* updateSchedule failed with a connection-lost error, the attempt ends the
\* way that error demands: it is retried while attempts are left, and the
\* call throws that very error after the last attempt.
C27_OriginalErrorReachesRetry ==
    [][\A p \in Procs :
          (/\ pc[p] = "rollback"
           /\ pc'[p] # "rollback"
           /\ loc[p].error.code = "ESOCKET")
          => IF ewr[p].attempt < maxRetries
               THEN pc'[p] = "ewr_sleep"
               ELSE outcome'[p] = Threw(loc[p].error)]_vars

\* C24: when an attempt of createSchedule or updateSchedule has returned or
\* thrown, the transaction it began is committed or rolled back, never open.
C24_TransactionEnded ==
    \A p \in Procs :
        pc[p] \in {"ewr_sleep", "ewr_attempt", "done"} =>
            snap[p].state \in {"none", "committed", "rolledBack"}

\* C28: when getUserSchedules(userIdentifier) has ended and the call before
\* it was a createSchedule with the same userIdentifier that returned, the
\* read has returned a list holding the schedule that createSchedule reported.
C28_CreateThenListRoundTrip ==
    (/\ pc[Client] = "done"
     /\ call[Client].op = "getUserSchedules"
     /\ snap[Client].prev.call.op = "createSchedule"
     /\ snap[Client].prev.call.userIdentifier = call[Client].userIdentifier
     /\ snap[Client].prev.outcome.kind = "returned")
    => /\ outcome[Client].kind = "returned"
       /\ \E s \in outcome[Client].value.schedules :
              s.ScheduleId = snap[Client].prev.outcome.value.scheduleId

\* C29: every executeWithRetry call of ScheduleService ends: from any point
\* inside a call the call reaches its end, having been through at most 5
\* iterations of the retry loop (one invocation of the operation at most in
\* each), at most 5 attempts in any connect cycle and at most 25 sql.connect
\* calls in all.
C29_ExecuteWithRetryTerminates ==
    /\ [](/\ ewr[Client].attempt <= 5
          /\ cwr[Client].attempt <= 5
          /\ snap[Client].connects <= 25)
    /\ (pc[Client] \notin {"idle", "done"}) ~> (pc[Client] = "done")

\* a call has ended with the store away from its start: 5 iterations, 25
\* connection attempts, the last error thrown
C29_Witness ==
    /\ pc[Client] = "done"
    /\ outcome[Client].kind = "threw"
    /\ ewr[Client].attempt = 5
    /\ snap[Client].connects = 25

(***************************************************************************)
(* Further properties of the connection supervisor (SpecAcquire,           *)
(* SpecWait, SpecHandle).                                                  *)
(***************************************************************************)
\* C21: in a connect cycle the sleep after the k-th attempt, when that attempt
\* failed transiently, is min(2000 * 2^(k-1), 30000) ms: 2 s, 4 s, 8 s, 16 s;
\* along the cycle the sleeps never get shorter and never exceed 30 s, and
\* the cycle makes at most 5 attempts.
C21_BackoffSchedule ==
    acq.pc = "on" =>
        \A c \in AcqCallers :
            LET r == acq.callers[c]
                schedule == <<2000, 4000, 8000, 16000>>
            IN  /\ Len(r.tries) <= 5
                /\ Len(r.sleeps) <= 4
                /\ \A k \in 1..Len(r.sleeps) :
                       /\ r.tries[k] = "connLost" => r.sleeps[k] = schedule[k]
                       /\ r.sleeps[k] <= 30000
                       /\ k > 1 => r.sleeps[k] >= r.sleeps[k - 1]

\* C22: an acquire never hands a caller the handle on which the caller's
\* previous attempt has just failed transiently: the failure invalidates the
\* shared handle, and the next attempt connects afresh.
C22_RetryOnFreshHandle ==
    acq.pc = "on" =>
        \A c \in AcqCallers :
            LET r == acq.callers[c] IN
            (r.pc = "done" /\ r.outcome.kind = "returned" /\ r.failed # 0)
                => r.outcome.value.id # r.failed

\* C23: an acquire never returns a handle that has reported itself
\* disconnected and is not connected, on the path of a caller that waited on
\* the connecting flag as on every other path.
C23_NoDeadHandleReturned ==
    [][acq.pc = "on" =>
        \A c \in AcqCallers :
            (/\ acq.callers[c].pc # "done"
             /\ acq'.callers[c].pc = "done"
             /\ acq'.callers[c].outcome.kind = "returned")
                => LET h == acq'.callers[c].outcome.value.id
                   IN  ~(h \in acq.reported /\ h \notin acq'.connected)]_vars

\* C25: an invalidation never takes out of the shared slot, nor closes, a
\* connected handle other than the handle that failed.
C25_InvalidationBoundToHandle == acq.pc = "on" => acq.lost = {}

\* C26: the connecting flag is set only while some caller runs a connect
\* cycle, and every caller that waits on the flag or runs a cycle eventually
\* has a handle or an error: no caller waits for ever.
C26_FlagResetAndWaitersProceed ==
    /\ [](acq.pc = "on" => (acq.isConnecting => Connecting(acq) # {}))
    /\ \A c \in AcqCallers :
         (acq.callers[c].pc \in {"waiting"} \cup CyclePcs) ~> (acq.callers[c].pc = "done")

\* a caller that waited on the flag has its handle, from a cycle that ended
\* after a failed attempt
C26_Witness ==
    /\ acq.pc = "on"
    /\ ~acq.isConnecting
    /\ \E c, d \in AcqCallers :
         /\ acq.callers[c].pc = "done"
         /\ acq.callers[c].waited
         /\ acq.callers[c].cycles = 0
         /\ acq.callers[c].outcome.kind = "returned"
         /\ acq.callers[d].pc = "done"
         /\ Len(acq.callers[d].tries) > 1

====
